---- MODULE Spec2Model ----
(***************************************************************************)
(* jq-view web UI (internal/web/app.js): the field tree built from a JSON  *)
(* document, the drag and drop mutations (reorder, move into), the         *)
(* selection walk and the synthesis of the jq expression.                  *)
(*                                                                         *)
(* Paths, keys and expressions are TLA+ strings, handled character by      *)
(* character as the JavaScript does (startsWith, slice, the segment        *)
(* regex).  Tree nodes are JavaScript objects: a node is identified by its *)
(* index in `tree`, and `children` holds indices.                          *)
(***************************************************************************)
EXTENDS Integers, Sequences, FiniteSets, TLC

VARIABLES
  tree,          \* tree.value: node index -> node object, index 1 is the root
  movedNodes,    \* movedNodes.value: sequence of move records
  expression,    \* expression.value
  compressPath,  \* compressPath.value
  format,        \* format.value
  dragEnabled,   \* dragEnabled.value
  rawData,       \* rawData.value: name of the document being shown
  currentFile,   \* currentFile.value
  result,        \* result.value
  error,         \* error.value
  queries,       \* /api/query requests whose response has not arrived yet
  loads,         \* /api/load requests whose response has not arrived yet
  dir,           \* the directory served: the file names that /api/load can read
  lastDrop,      \* the drop the page has just ignored, "" after any other event
  lastFold,      \* the fold or unfold the page has just handled, "" after any other event
  server,        \* handler.go: dirPath and the currentFile variable the handlers share
  handlers       \* handler.go: the request each goroutine of the server is handling

vars == <<tree, movedNodes, expression, compressPath, format, dragEnabled,
          rawData, currentFile, result, error, queries, loads, dir, lastDrop, lastFold,
          server, handlers>>

(***************************************************************************)
(* Bounds                                                                  *)
(***************************************************************************)
MaxMoves == 2      \* successful move-into operations per tree
MaxQueries == 1    \* query requests in flight at once
MaxLoads == 1      \* load requests in flight at once
MaxOverlap == 2    \* query requests in flight at once where executions overlap
MaxHandlers == 2   \* requests the server handles at once

(***************************************************************************)
(* JavaScript string primitives                                            *)
(***************************************************************************)
startsWith(s, p) == Len(p) <= Len(s) /\ SubSeq(s, 1, Len(p)) = p

endsWith(s, p) == Len(p) <= Len(s) /\ SubSeq(s, Len(s) - Len(p) + 1, Len(s)) = p

\* s.slice(n) for 0 <= n
slice(s, n) == SubSeq(s, n + 1, Len(s))

\* s.slice(0, -n)
sliceEnd(s, n) == SubSeq(s, 1, Len(s) - n)

includes(s, p) == \E i \in 1..(Len(s) - Len(p) + 1) : SubSeq(s, i, i + Len(p) - 1) = p

charAt(s, i) == SubSeq(s, i, i)

RECURSIVE join(_, _)
join(parts, sep) ==
  IF parts = <<>> THEN ""
  ELSE IF Len(parts) = 1 THEN parts[1]
  ELSE parts[1] \o sep \o join(Tail(parts), sep)

\* s.split('.').filter(x => x): the non-empty pieces of s between dots
RECURSIVE splitDots(_, _, _)
splitDots(s, i, cur) ==
  IF i > Len(s) THEN (IF cur = "" THEN <<>> ELSE <<cur>>)
  ELSE IF charAt(s, i) = "."
       THEN (IF cur = "" THEN <<>> ELSE <<cur>>) \o splitDots(s, i + 1, "")
       ELSE splitDots(s, i + 1, cur \o charAt(s, i))

(***************************************************************************)
(* Parsed JSON values.  kv lists the entries Object.entries yields: the    *)
(* fields of an object in key order, the elements of an array under their  *)
(* indices.                                                                *)
(***************************************************************************)
Scalar == [t |-> "scalar", kv |-> <<>>]
Null == [t |-> "null", kv |-> <<>>]
Obj(kv) == [t |-> "object", kv |-> kv]
Arr(kv) == [t |-> "array", kv |-> kv]
F(k, v) == [k |-> k, v |-> v]

\* {"meta":{"owner":1},"items":[{"x":1}]}
DocScenario ==
  Obj(<<F("meta", Obj(<<F("owner", Scalar)>>)),
        F("items", Arr(<<F("0", Obj(<<F("x", Scalar)>>))>>))>>)

\* {"a":{"b":{"c":1}},"r":[]}
DocDeep ==
  Obj(<<F("a", Obj(<<F("b", Obj(<<F("c", Scalar)>>))>>)),
        F("r", Arr(<<>>))>>)

\* {"items":[{"sub":{"y":1},"x":2}]}
DocItems ==
  Obj(<<F("items", Arr(<<F("0", Obj(<<F("sub", Obj(<<F("y", Scalar)>>)),
                                      F("x", Scalar)>>))>>))>>)

\* {"x":1,"y":2,"z":3}
DocFlat == Obj(<<F("x", Scalar), F("y", Scalar), F("z", Scalar)>>)

\* {"k":{"x":1}}
DocKx == Obj(<<F("k", Obj(<<F("x", Scalar)>>))>>)

\* {"y":1}
DocKy == Obj(<<F("y", Scalar)>>)

\* {"a":[null]}
DocNullItem == Obj(<<F("a", Arr(<<F("0", Null)>>))>>)

\* 7
DocScalar == Scalar

\* {"rows":[{"a":1},{"b":2,"c":3}]}
DocRows ==
  Obj(<<F("rows", Arr(<<F("0", Obj(<<F("a", Scalar)>>)),
                        F("1", Obj(<<F("b", Scalar), F("c", Scalar)>>))>>))>>)

\* {"m":[[1,2]]}
DocMatrix == Obj(<<F("m", Arr(<<F("0", Arr(<<F("0", Scalar), F("1", Scalar)>>))>>))>>)

\* {"n":[1,2],"e":[],"o":{},"z":null}
DocNumbers ==
  Obj(<<F("n", Arr(<<F("0", Scalar), F("1", Scalar)>>)), F("e", Arr(<<>>)),
        F("o", Obj(<<>>)), F("z", Null)>>)

\* [{"k":1}]
DocList == Arr(<<F("0", Obj(<<F("k", Scalar)>>))>>)

\* {"a":{"x":1,"xy":2},"x":3}
DocDup == Obj(<<F("a", Obj(<<F("x", Scalar), F("xy", Scalar)>>)), F("x", Scalar)>>)

\* {"a":{"b":{"c":1,"d":2}},"n":[{"f":{"g":1,"h":2}}]}
DocChain ==
  Obj(<<F("a", Obj(<<F("b", Obj(<<F("c", Scalar), F("d", Scalar)>>))>>)),
        F("n", Arr(<<F("0", Obj(<<F("f", Obj(<<F("g", Scalar), F("h", Scalar)>>))>>))>>))>>)

\* {"a":{"b":{"c":1}}}
DocAbc == Obj(<<F("a", Obj(<<F("b", Obj(<<F("c", Scalar)>>))>>))>>)

\* {"items":[{"x":1,"y":2}]}
DocXy == Obj(<<F("items", Arr(<<F("0", Obj(<<F("x", Scalar), F("y", Scalar)>>))>>))>>)

\* {"p":[{"q":[{"c":1}]}]}
DocNest ==
  Obj(<<F("p", Arr(<<F("0", Obj(<<F("q", Arr(<<F("0", Obj(<<F("c", Scalar)>>))>>))>>))>>))>>)

\* [1,2]
DocVector == Arr(<<F("0", Scalar), F("1", Scalar)>>)

Documents ==
  [n \in {"scenario.json", "deep.json", "items.json", "flat.json", "kx.json", "ky.json",
           "nullitem.json", "scalar.json", "rows.json", "matrix.json", "numbers.json",
           "list.json", "dup.json", "chain.json", "nest.json", "abc.json", "xy.json",
           "vector.json"} |->
     CASE n = "scenario.json" -> DocScenario
       [] n = "vector.json" -> DocVector
       [] n = "chain.json" -> DocChain
       [] n = "nest.json" -> DocNest
       [] n = "abc.json" -> DocAbc
       [] n = "xy.json" -> DocXy
       [] n = "scalar.json" -> DocScalar
       [] n = "rows.json" -> DocRows
       [] n = "matrix.json" -> DocMatrix
       [] n = "numbers.json" -> DocNumbers
       [] n = "list.json" -> DocList
       [] n = "dup.json" -> DocDup
       [] n = "kx.json" -> DocKx
       [] n = "ky.json" -> DocKy
       [] n = "deep.json" -> DocDeep
       [] n = "items.json" -> DocItems
       [] n = "flat.json" -> DocFlat
       [] n = "nullitem.json" -> DocNullItem]

(***************************************************************************)
(* Tree Builder                                                            *)
(***************************************************************************)
\* typeof v === 'object'
typeofObject(v) == v.t \in {"object", "array", "null"}

\* the entries taken from the last element of an array instead of the first
childEntriesLast(data) ==
  IF data.t = "array"
  THEN (IF Len(data.kv) > 0 /\ typeofObject(data.kv[1].v) THEN data.kv[Len(data.kv)].v.kv ELSE <<>>)
  ELSE IF data.t = "object" THEN data.kv ELSE <<>>

\* the entries buildTree maps over, <<>> when it builds no children
childEntries(data) ==
  IF data.t = "array"
  THEN (IF Len(data.kv) > 0 /\ typeofObject(data.kv[1].v) THEN data.kv[1].v.kv ELSE <<>>)
  ELSE IF data.t = "object" THEN data.kv ELSE <<>>

\* Object.entries(null) raises a TypeError
RECURSIVE buildTreeThrows(_)
buildTreeThrows(data) ==
  \/ data.t = "array" /\ Len(data.kv) > 0 /\ data.kv[1].v.t = "null"
  \/ \E i \in 1..Len(childEntries(data)) : buildTreeThrows(childEntries(data)[i].v)

\* buildTree(data, key, path, isArrayItem): the nodes of the subtree in
\* creation order, the node itself first; id is the index the node gets.
RECURSIVE buildTree(_, _, _, _, _)
RECURSIVE buildChildren(_, _, _, _)
buildChildren(entries, base, isArrayItem, id) ==
  IF entries = <<>> THEN [nodes |-> <<>>, ids |-> <<>>]
  ELSE LET first == buildTree(entries[1].v, entries[1].k, base \o entries[1].k, isArrayItem, id)
           rest == buildChildren(Tail(entries), base, isArrayItem, id + Len(first))
       IN [nodes |-> first \o rest.nodes, ids |-> <<id>> \o rest.ids]

buildTree(data, key, path, isArrayItem, id) ==
  LET isArr == data.t = "array"
      isObj == data.t = "object"
      withKids == IF isArr THEN Len(data.kv) > 0 /\ typeofObject(data.kv[1].v) ELSE isObj
      kids == IF isArr
              THEN buildChildren(childEntries(data), path \o "[].", TRUE, id + 1)
              ELSE buildChildren(childEntries(data),
                                 IF path = "." THEN "." ELSE path \o ".", isArrayItem, id + 1)
      node == [key |-> key,
               path |-> path,
               expanded |-> (path = "."),
               selected |-> FALSE,
               isLeaf |-> ~isArr /\ ~isObj,
               isArray |-> isArr,
               isArrayItem |-> isArrayItem,
               arrayLength |-> IF isArr THEN Len(data.kv) ELSE 0,
               hasChildren |-> withKids,
               children |-> kids.ids]
  IN <<node>> \o kids.nodes

\* buildTree(rawData.value)
buildRoot(doc) == buildTree(Documents[doc], "root", ".", FALSE, 1)

(***************************************************************************)
(* Tree walks                                                              *)
(***************************************************************************)
Root == 1
NoNode == 0

\* findNodeByPath(node, path): the first node in depth-first order with that path
RECURSIVE findNodeByPath(_, _, _)
RECURSIVE findNodeInList(_, _, _)
findNodeInList(t, kids, path) ==
  IF kids = <<>> THEN NoNode
  ELSE LET found == findNodeByPath(t, kids[1], path)
       IN IF found # NoNode THEN found ELSE findNodeInList(t, Tail(kids), path)

findNodeByPath(t, n, path) ==
  IF t[n].path = path THEN n
  ELSE IF t[n].hasChildren THEN findNodeInList(t, t[n].children, path)
  ELSE NoNode

\* findParentOfNode(root, targetPath, parent, index); index counts from 1,
\* [parent |-> NoNode, index |-> 0] is the JavaScript { parent: null, index: -1 }
RECURSIVE findParentOfNode(_, _, _, _, _)
RECURSIVE findParentInList(_, _, _, _, _)
findParentInList(t, n, i, targetPath, kids) ==
  IF i > Len(kids) THEN [parent |-> NoNode, index |-> 0]
  ELSE LET r == findParentOfNode(t, kids[i], targetPath, n, i)
       IN IF r.parent # NoNode THEN r ELSE findParentInList(t, n, i + 1, targetPath, kids)

findParentOfNode(t, n, targetPath, parent, index) ==
  IF t[n].path = targetPath THEN [parent |-> parent, index |-> index]
  ELSE IF t[n].hasChildren THEN findParentInList(t, n, 1, targetPath, t[n].children)
  ELSE [parent |-> NoNode, index |-> 0]

\* the node whose children array holds n (the parentChildren prop of the row), NoNode for the root
parentOf(t, n) ==
  IF \E m \in DOMAIN t : t[m].hasChildren /\ \E i \in 1..Len(t[m].children) : t[m].children[i] = n
  THEN CHOOSE m \in DOMAIN t : t[m].hasChildren /\ \E i \in 1..Len(t[m].children) : t[m].children[i] = n
  ELSE NoNode

\* updateNodePaths(node, newBasePath)
RECURSIVE updateNodePaths(_, _, _)
RECURSIVE updateChildPaths(_, _, _, _)
updateChildPaths(t, n, kids, newBasePath) ==
  IF kids = <<>> THEN t
  ELSE LET childPath == IF t[n].isArray
                        THEN newBasePath \o "[]." \o t[kids[1]].key
                        ELSE newBasePath \o "." \o t[kids[1]].key
       IN updateChildPaths(updateNodePaths(t, kids[1], childPath), n, Tail(kids), newBasePath)

updateNodePaths(t, n, newBasePath) ==
  LET t1 == [t EXCEPT ![n].path = newBasePath,
                      ![n].isArrayItem = includes(newBasePath, "[]")]
  IN IF t[n].hasChildren THEN updateChildPaths(t1, n, t[n].children, newBasePath) ELSE t1

(***************************************************************************)
(* Selection Tracker                                                       *)
(***************************************************************************)
\* the path prefix collectSelected derives from a move record
movedNewPathPrefix(move) ==
  IF endsWith(move.toPath, "[]")
  THEN sliceEnd(move.toPath, 2) \o "[]." \o move.key
  ELSE move.toPath \o "." \o move.key

\* the loop over movedNodes.value: the first record whose prefix matches decides
RECURSIVE resolveSource(_, _, _)
resolveSource(moved, i, path) ==
  IF i > Len(moved) THEN [sourcePath |-> path, isMoved |-> FALSE]
  ELSE IF startsWith(path, movedNewPathPrefix(moved[i]))
       THEN [sourcePath |-> moved[i].originalPath
                              \o slice(path, Len(movedNewPathPrefix(moved[i]))),
             isMoved |-> TRUE]
       ELSE resolveSource(moved, i + 1, path)

\* the selected leaves in the order collectSelected visits them
\* the walk that only enters the containers that are open
RECURSIVE selectedLeavesOpen(_, _)
RECURSIVE selectedInListOpen(_, _)
selectedInListOpen(t, kids) ==
  IF kids = <<>> THEN <<>>
  ELSE selectedLeavesOpen(t, kids[1]) \o selectedInListOpen(t, Tail(kids))

selectedLeavesOpen(t, n) ==
  (IF t[n].selected /\ t[n].isLeaf THEN <<n>> ELSE <<>>)
  \o (IF t[n].hasChildren /\ t[n].expanded THEN selectedInListOpen(t, t[n].children) ELSE <<>>)

RECURSIVE selectedLeaves(_, _)
RECURSIVE selectedInList(_, _)
selectedInList(t, kids) ==
  IF kids = <<>> THEN <<>>
  ELSE selectedLeaves(t, kids[1]) \o selectedInList(t, Tail(kids))

selectedLeaves(t, n) ==
  (IF t[n].selected /\ t[n].isLeaf THEN <<n>> ELSE <<>>)
  \o (IF t[n].hasChildren THEN selectedInList(t, t[n].children) ELSE <<>>)

\* collectSelected(tree.value)
collectSelected(t, moved) ==
  LET leaves == selectedLeaves(t, Root)
  IN [i \in 1..Len(leaves) |->
        LET src == resolveSource(moved, 1, t[leaves[i]].path)
        IN [path |-> t[leaves[i]].path,
            sourcePath |-> src.sourcePath,
            key |-> t[leaves[i]].key,
            order |-> i - 1,
            isMoved |-> src.isMoved]]

(***************************************************************************)
(* Expression Synthesizer                                                  *)
(***************************************************************************)
special(c) == c \in {".", "[", "]"}

\* the last index of the run of non-special characters that starts at i
RECURSIVE runEnd(_, _)
runEnd(s, i) ==
  IF i < Len(s) /\ ~special(charAt(s, i + 1)) THEN runEnd(s, i + 1) ELSE i

\* the loop over regex.exec with /([^.\[\]]+)(\[\])?\.?/g, from index i on
RECURSIVE scanSegments(_, _)
scanSegments(s, i) ==
  IF i > Len(s) THEN <<>>
  ELSE IF special(charAt(s, i)) THEN scanSegments(s, i + 1)
  ELSE LET e == runEnd(s, i)
           marker == e + 2 <= Len(s) /\ SubSeq(s, e + 1, e + 2) = "[]"
           afterMarker == IF marker THEN e + 3 ELSE e + 1
           next == IF afterMarker <= Len(s) /\ charAt(s, afterMarker) = "."
                   THEN afterMarker + 1 ELSE afterMarker
       IN <<SubSeq(s, i, e) \o (IF marker THEN "[]" ELSE "")>> \o scanSegments(s, next)

\* the segments of a path: the leading dot removed, then the regex loop
parseSegments(path) == scanSegments(slice(path, 1), 1)

\* JavaScript Map: entries in insertion order
mapHas(m, k) == \E i \in 1..Len(m) : m[i].k = k
mapGet(m, k) == m[CHOOSE i \in 1..Len(m) : m[i].k = k].v
mapSet(m, k, v) ==
  IF mapHas(m, k) THEN [i \in 1..Len(m) |-> IF m[i].k = k THEN [k |-> k, v |-> v] ELSE m[i]]
  ELSE Append(m, [k |-> k, v |-> v])

leafEntry(p) ==
  [leaf |-> TRUE, sourcePath |-> p.sourcePath, order |-> p.order,
   isMoved |-> p.isMoved, children |-> <<>>]
branchEntry(order) ==
  [leaf |-> FALSE, sourcePath |-> "", order |-> order, isMoved |-> FALSE, children |-> <<>>]

\* the sort with its comparator turned round
RECURSIVE sortByOrderDescending(_)
sortByOrderDescending(entries) ==
  IF entries = <<>> THEN <<>>
  ELSE LET sorted == sortByOrderDescending(SubSeq(entries, 1, Len(entries) - 1))
           x == entries[Len(entries)]
           ord(e) == IF "v" \in DOMAIN e THEN e.v.order ELSE e.order
           pos == Cardinality({i \in 1..Len(sorted) : ord(sorted[i]) >= ord(x)})
       IN SubSeq(sorted, 1, pos) \o <<x>> \o SubSeq(sorted, pos + 1, Len(sorted))

\* Array.prototype.sort by order (stable)
RECURSIVE sortByOrder(_)
sortByOrder(entries) ==
  IF entries = <<>> THEN <<>>
  ELSE LET sorted == sortByOrder(SubSeq(entries, 1, Len(entries) - 1))
           x == entries[Len(entries)]
           ord(e) == IF "v" \in DOMAIN e THEN e.v.order ELSE e.order
           pos == Cardinality({i \in 1..Len(sorted) : ord(sorted[i]) <= ord(x)})
       IN SubSeq(sorted, 1, pos) \o <<x>> \o SubSeq(sorted, pos + 1, Len(sorted))

\* the displaySegments.forEach of buildTreeWithOrder for one path, from segment i on
RECURSIVE insertDisplay(_, _, _, _)
insertDisplay(m, segs, i, p) ==
  IF i > Len(segs) THEN m
  ELSE IF i = Len(segs) THEN mapSet(m, segs[i], leafEntry(p))
  ELSE LET m1 == IF ~mapHas(m, segs[i]) \/ mapGet(m, segs[i]).leaf
                 THEN mapSet(m, segs[i], branchEntry(p.order)) ELSE m
           sub == mapGet(m1, segs[i])
       IN mapSet(m1, segs[i],
                 [sub EXCEPT !.children = insertDisplay(sub.children, segs, i + 1, p)])

RECURSIVE buildTreeWithOrderFrom(_, _, _)
buildTreeWithOrderFrom(m, paths, i) ==
  IF i > Len(paths) THEN m
  ELSE buildTreeWithOrderFrom(insertDisplay(m, paths[i].displaySegments, 1, paths[i]),
                              paths, i + 1)

\* buildTreeWithOrder(paths); the null of an empty list is the empty map
buildTreeWithOrder(paths) == buildTreeWithOrderFrom(<<>>, paths, 1)

\* the composite key without its quotes
quotedBare(parts) == join(parts, ".")

quoted(parts) == "\"" \o join(parts, ".") \o "\""

\* treeToExpr(tree, useRoot)
RECURSIVE treeToExpr(_, _, _)
RECURSIVE treeChain(_, _, _, _)

\* the chain followed through the first child without looking for siblings
RECURSIVE treeChainFirst(_, _, _, _)
treeChainFirst(pathParts, current, useRoot, compress) ==
  LET childKey == current[1].k
      childVal == current[1].v
  IN IF childVal.leaf
     THEN quoted(Append(pathParts, childKey)) \o ": "
            \o (IF childVal.isMoved /\ useRoot THEN "$root" ELSE "") \o childVal.sourcePath
     ELSE treeChainFirst(Append(pathParts, childKey), childVal.children, useRoot, compress)

treeChain(pathParts, current, useRoot, compress) ==
  LET childKey == current[1].k
      childVal == current[1].v
  IN IF childVal.leaf
     THEN quoted(Append(pathParts, childKey)) \o ": "
            \o (IF childVal.isMoved /\ useRoot THEN "$root" ELSE "") \o childVal.sourcePath
     ELSE IF Len(childVal.children) = 1
     THEN treeChain(Append(pathParts, childKey), childVal.children, useRoot, compress)
     ELSE quoted(Append(pathParts, childKey)) \o ": "
            \o treeToExpr(childVal.children, useRoot, compress)

treeToExpr(m, useRoot, compress) ==
  IF m = <<>> THEN ""
  ELSE LET entries == sortByOrder(m)
           part(e) ==
             IF e.v.leaf
             THEN e.k \o ": " \o (IF e.v.isMoved /\ useRoot THEN "$root" ELSE "")
                      \o e.v.sourcePath
             ELSE IF compress /\ Len(e.v.children) = 1
             THEN treeChain(<<e.k>>, e.v.children, useRoot, compress)
             ELSE e.k \o ": " \o treeToExpr(e.v.children, useRoot, compress)
       IN "{" \o join([i \in 1..Len(entries) |-> part(entries[i])], ", ") \o "}"

\* displaySegments.findIndex(s => s.endsWith('[]')), counted from 1; 0 when there is none
arrayIndex(segs) ==
  IF \E i \in 1..Len(segs) : endsWith(segs[i], "[]")
  THEN CHOOSE i \in 1..Len(segs) :
         /\ endsWith(segs[i], "[]")
         /\ \A j \in 1..(i - 1) : ~endsWith(segs[j], "[]")
  ELSE 0

\* s.replace('[]', '') on a segment: the marker can only be its last two characters
dropMarker(seg) == IF endsWith(seg, "[]") THEN sliceEnd(seg, 2) ELSE seg

\* the array base buildArrayExpr groups a path under
arrayBase(segs) ==
  "." \o join([i \in 1..arrayIndex(segs) |-> dropMarker(segs[i])], ".") \o "[]"

\* the groups map of buildArrayExpr: base -> items, in insertion order
RECURSIVE groupPaths(_, _, _)
groupPaths(groups, paths, i) ==
  IF i > Len(paths) THEN groups
  ELSE LET segs == paths[i].displaySegments
           base == arrayBase(segs)
           item == [rest |-> SubSeq(segs, arrayIndex(segs) + 1, Len(segs)),
                    sourcePath |-> paths[i].sourcePath,
                    order |-> paths[i].order,
                    isMoved |-> paths[i].isMoved]
           have == IF mapHas(groups, base) THEN mapGet(groups, base) ELSE <<>>
       IN groupPaths(mapSet(groups, base, Append(have, item)), paths, i + 1)

\* the rest.forEach that files one item into the fieldTree, from segment i on
RECURSIVE insertField(_, _, _, _)
insertField(m, rest, i, p) ==
  IF i > Len(rest) THEN m
  ELSE IF i = Len(rest) THEN mapSet(m, rest[i], leafEntry(p))
  ELSE LET m1 == IF ~mapHas(m, rest[i]) THEN mapSet(m, rest[i], branchEntry(p.order)) ELSE m
           existing == mapGet(m1, rest[i])
       IN IF ~existing.leaf
          THEN mapSet(m1, rest[i],
                      [existing EXCEPT !.children = insertField(existing.children, rest, i + 1, p)])
          ELSE insertField(m1, rest, i + 1, p)

RECURSIVE buildFieldTree(_, _, _)
buildFieldTree(m, items, i) ==
  IF i > Len(items) THEN m
  ELSE buildFieldTree(insertField(m, items[i].rest, 1, items[i]), items, i + 1)

\* the text read for a leaf inside an array group
fieldSource(val, currentArrayBase, useRoot) ==
  IF val.isMoved
  THEN (IF useRoot THEN "$root" ELSE "") \o val.sourcePath
  ELSE IF currentArrayBase # "" /\ startsWith(val.sourcePath, currentArrayBase)
  THEN LET relPath == slice(val.sourcePath, Len(currentArrayBase))
       IN IF startsWith(relPath, ".") THEN relPath ELSE "." \o relPath
  ELSE val.sourcePath

\* fieldTreeToExpr(tree, currentArrayBase)
RECURSIVE fieldTreeToExpr(_, _, _, _)
RECURSIVE fieldChain(_, _, _, _, _)
fieldChain(pathParts, current, currentArrayBase, useRoot, compress) ==
  LET childKey == current[1].k
      childVal == current[1].v
  IN IF childVal.leaf
     THEN quoted(Append(pathParts, childKey)) \o ": "
            \o fieldSource(childVal, currentArrayBase, useRoot)
     ELSE IF Len(childVal.children) = 1
     THEN fieldChain(Append(pathParts, childKey), childVal.children,
                     currentArrayBase, useRoot, compress)
     ELSE quoted(Append(pathParts, childKey)) \o ": "
            \o fieldTreeToExpr(childVal.children, currentArrayBase, useRoot, compress)

fieldTreeToExpr(m, currentArrayBase, useRoot, compress) ==
  LET entries == sortByOrder(m)
      part(e) ==
        IF e.v.leaf
        THEN e.k \o ": " \o fieldSource(e.v, currentArrayBase, useRoot)
        ELSE IF compress /\ Len(e.v.children) = 1
        THEN fieldChain(<<e.k>>, e.v.children, currentArrayBase, useRoot, compress)
        ELSE e.k \o ": " \o fieldTreeToExpr(e.v.children, currentArrayBase, useRoot, compress)
  IN "{" \o join([i \in 1..Len(entries) |-> part(entries[i])], ", ") \o "}"

\* {p1: {p2: ... result}} for the parent segments of an array base
RECURSIVE wrapParents(_, _)
wrapParents(parentSegments, inner) ==
  IF parentSegments = <<>> THEN inner
  ELSE "{" \o parentSegments[1] \o ": " \o wrapParents(Tail(parentSegments), inner) \o "}"

\* the array iteration of one group, wrapped in the parents of its base
wrapGroup(base, parentSegments, innerExpr) ==
  IF parentSegments = <<>>
  THEN "[.[] | " \o innerExpr \o "]"
  ELSE wrapParents(parentSegments, "[" \o base \o " | " \o innerExpr \o "]")

\* the expression of one group of buildArrayExpr
groupExpr(base, items, useRoot, compress) ==
  LET fieldTree == buildFieldTree(<<>>, sortByOrder(items), 1)
      parentPath == sliceEnd(base, 2)
  IN wrapGroup(base, splitDots(slice(parentPath, 1), 1, ""),
               fieldTreeToExpr(fieldTree, base, useRoot, compress))

\* buildArrayExpr(paths, useRoot): one expression per group
buildArrayExpr(paths, useRoot, compress) ==
  LET groups == groupPaths(<<>>, paths, 1)
  IN [g \in 1..Len(groups) |-> groupExpr(groups[g].k, groups[g].v, useRoot, compress)]

\* the parse step of buildNestedExpr for one path
parsePath(p) ==
  [displaySegments |-> parseSegments(p.path),
   sourceSegments |-> parseSegments(p.sourcePath),
   key |-> p.key,
   path |-> p.path,
   sourcePath |-> p.sourcePath,
   order |-> p.order,
   isMoved |-> p.isMoved]

\* the results array: the expression of the plain paths, then one per array group
nestedResults(nonArrayPaths, arrayPaths, hasMoved, compress) ==
  (IF Len(nonArrayPaths) > 0
   THEN <<treeToExpr(buildTreeWithOrder(nonArrayPaths), hasMoved, compress)>>
   ELSE <<>>)
  \o (IF Len(arrayPaths) > 0 THEN buildArrayExpr(arrayPaths, hasMoved, compress) ELSE <<>>)

\* the merge without the branches for one and for no result
mergeResultsJoin(results) == join(results, " * ")

\* finalExpr: the results merged with " * "
mergeResults(results) ==
  IF Len(results) = 1 THEN results[1]
  ELSE IF Len(results) > 1 THEN join(results, " * ")
  ELSE "."

\* the root binding put in front of every expression
bindRootAlways(hasMoved, finalExpr) == ". as $root | " \o finalExpr

\* the root binding put in front when a moved path is among the selected
bindRoot(hasMoved, finalExpr) ==
  IF hasMoved /\ finalExpr # "." THEN ". as $root | " \o finalExpr ELSE finalExpr

\* the paths parsed by buildNestedExpr, split into plain and array paths
splitPaths(parsed, hasMoved, compress) ==
  LET isArrayPath(p) == arrayIndex(p.displaySegments) # 0
      isPlainPath(p) == arrayIndex(p.displaySegments) = 0
  IN nestedResults(SelectSeq(parsed, isPlainPath), SelectSeq(parsed, isArrayPath),
                   hasMoved, compress)

\* buildNestedExpr from the parsed paths on
nestedExpr(parsed, hasMoved, compress) ==
  bindRoot(hasMoved, mergeResults(splitPaths(parsed, hasMoved, compress)))

\* buildNestedExpr(paths), with compressPath.value passed as compress
buildNestedExpr(paths, compress) ==
  nestedExpr([i \in 1..Len(paths) |-> parsePath(paths[i])],
             \E i \in 1..Len(paths) : paths[i].isMoved,
             compress)

(***************************************************************************)
(* Requests and responses                                                  *)
(***************************************************************************)
\* how many query requests a session is explored with in flight: MaxOverlap
\* on the directory of SpecOverlap, MaxQueries on every other
OverlapListing == <<"ky.json", "kx.json">>
queryLimit == IF dir = OverlapListing THEN MaxOverlap ELSE MaxQueries

\* the body runQuery posts to /api/query
queryRequest(data, expr, fmt) == [data |-> data, expression |-> expr, format |-> fmt]

\* what the query engine answers to a request: opaque to the page
resultOf(req) == "result(" \o req.data \o ", " \o req.format \o ", " \o req.expression \o ")"
errorOf(req) == "error(" \o req.data \o ", " \o req.expression \o ")"

\* the synchronous part of runQuery(): the request leaves with the state of that moment
runQuery(data, expr, fmt) == queries' = Append(queries, queryRequest(data, expr, fmt))

\* s.splice(i - 1, 1)
removeAt(s, i) == SubSeq(s, 1, i - 1) \o SubSeq(s, i + 1, Len(s))

\* s.splice(start, 0, x): a start beyond the end appends, a negative one counts from the end
insertAt(s, start, x) ==
  LET at == IF start > Len(s) THEN Len(s)
            ELSE IF start < 0 THEN (IF Len(s) + start < 0 THEN 0 ELSE Len(s) + start)
            ELSE start
  IN SubSeq(s, 1, at) \o <<x>> \o SubSeq(s, at + 1, Len(s))

(***************************************************************************)
(* Mutation Engine                                                         *)
(***************************************************************************)
\* findIndex that answers 0 instead of -1 for a path that is not there
findIndexOrFirst(t, parentChildren, path) ==
  IF \E i \in 1..Len(parentChildren) : t[parentChildren[i]].path = path
  THEN (CHOOSE i \in 1..Len(parentChildren) :
          /\ t[parentChildren[i]].path = path
          /\ \A j \in 1..(i - 1) : t[parentChildren[j]].path # path) - 1
  ELSE 0

\* parentChildren.findIndex(c => c.path === path), counted from 0; -1 when absent
findIndex(t, parentChildren, path) ==
  IF \E i \in 1..Len(parentChildren) : t[parentChildren[i]].path = path
  THEN (CHOOSE i \in 1..Len(parentChildren) :
          /\ t[parentChildren[i]].path = path
          /\ \A j \in 1..(i - 1) : t[parentChildren[j]].path # path) - 1
  ELSE -1

\* the early return of handleReorder
reorderRejected(fromIdx, toIdx) == fromIdx = -1 \/ toIdx = -1 \/ fromIdx = toIdx

\* the position without the shift for a node taken out in front of the target
reorderIndexNoShift(fromIdx, toIdx, insertAfter) ==
  toIdx + (IF insertAfter THEN 1 ELSE 0)

\* the position handleReorder splices the node back in at, counted from 0
reorderIndex(fromIdx, toIdx, insertAfter) ==
  toIdx - (IF fromIdx < toIdx THEN 1 ELSE 0) + (IF insertAfter THEN 1 ELSE 0)

\* the two splices of handleReorder on the children of node parent
reorderChildren(t, parent, fromPath, toPath, insertAfter) ==
  LET parentChildren == t[parent].children
      fromIdx == findIndex(t, parentChildren, fromPath)
      toIdx == findIndex(t, parentChildren, toPath)
      newIdx == reorderIndex(fromIdx, toIdx, insertAfter)
      removed == removeAt(parentChildren, fromIdx + 1)
  IN [t EXCEPT ![parent].children = insertAt(removed, newIdx, parentChildren[fromIdx + 1])]

\* the check "Don't allow moving into self or own children" of handleMoveInto
moveIntoSelf(targetPath, fromPath) ==
  targetPath = fromPath \/ startsWith(targetPath, fromPath \o ".")

\* the early returns of handleMoveInto
moveIntoRejected(t, fromPath, targetNode) ==
  \/ findNodeByPath(t, Root, fromPath) = NoNode
  \/ findParentOfNode(t, Root, fromPath, NoNode, 0).parent = NoNode
  \/ findParentOfNode(t, Root, fromPath, NoNode, 0).index = 0
  \/ moveIntoSelf(t[targetNode].path, fromPath)

\* the path handleMoveInto gives the moved node
moveIntoPath(t, targetNode, key) ==
  IF t[targetNode].isArray
  THEN t[targetNode].path \o "[]." \o key
  ELSE t[targetNode].path \o "." \o key

\* the record handleMoveInto pushes
moveRecord(fromPath, toPath, key) ==
  [fromPath |-> fromPath, toPath |-> toPath, key |-> key, originalPath |-> fromPath]

\* the node handleMoveInto moves for a given fromPath
movedNodeOf(t, fromPath) ==
  LET src == findParentOfNode(t, Root, fromPath, NoNode, 0)
  IN t[src.parent].children[src.index]

\* the tree after handleMoveInto has detached, re-pathed and appended the node
moveIntoTree(t, fromPath, targetNode) ==
  LET src == findParentOfNode(t, Root, fromPath, NoNode, 0)
      movedNode == movedNodeOf(t, fromPath)
      t1 == [t EXCEPT ![src.parent].children = removeAt(@, src.index)]
      t2 == updateNodePaths(t1, movedNode, moveIntoPath(t1, targetNode, t1[movedNode].key))
  IN [t2 EXCEPT ![targetNode].children = Append(@, movedNode),
                ![targetNode].hasChildren = TRUE,
                ![targetNode].expanded = TRUE]

\* the tail shared by handleReorder and handleMoveInto: the expression is
\* expression.value = expr; runQuery()
setExpression(expr) ==
  /\ expression' = expr
  /\ runQuery(rawData, expr, format)

\* rebuilt only when something is selected, the query always runs
refreshWith(selected) ==
  IF Len(selected) > 0 THEN setExpression(buildNestedExpr(selected, compressPath))
  ELSE setExpression(expression)

refreshAfterDrop(t, moved) == refreshWith(collectSelected(t, moved))

\* updateExpression() on tree t
updateWith(selected, compress) ==
  IF Len(selected) = 0 THEN setExpression(".")
  ELSE setExpression(buildNestedExpr(selected, compress))

updateExpression(t, compress) == updateWith(collectSelected(t, movedNodes), compress)

(***************************************************************************)
(* The page after onMounted: the tree of the first file of the directory   *)
(* is built and the first query is on its way.                             *)
(***************************************************************************)
Nodes == DOMAIN tree

\* a handler goroutine that handles no request
Idle ==
  [kind |-> "idle", pc |-> "idle", method |-> "", decodes |-> FALSE, filename |-> "",
   didRead |-> FALSE, wrote |-> FALSE, raced |-> FALSE, response |-> ""]

\* Handler(initialData, dirPath) up to the handlers: currentFile is the first
\* .json entry of the directory, "" when no directory is served
InitHandler(dirPath, listing) ==
  /\ server = [dirPath |-> dirPath,
               currentFile |-> IF dirPath # "" /\ listing # <<>> THEN listing[1] ELSE ""]
  /\ handlers = [h \in 1..MaxHandlers |-> Idle]

\* the page once mounted: the listing of the directory, the name of the
\* current file, the document shown, drag mode as given
mounted(listing, file, doc, drag) ==
  /\ dir = listing
  /\ currentFile = file
  /\ rawData = doc
  /\ tree = buildRoot(doc)
  /\ movedNodes = <<>>
  /\ expression = "."
  /\ compressPath = TRUE
  /\ format = "json"
  /\ dragEnabled = drag
  /\ result = ""
  /\ error = ""
  /\ queries = <<queryRequest(doc, ".", "json")>>
  /\ loads = <<>>
  /\ lastDrop = ""
  /\ lastFold = ""

\* the page served for a directory with this listing (os.ReadDir order), drag mode as given
InitPage(listing, drag) ==
  /\ mounted(listing, listing[1], listing[1], drag)
  /\ InitHandler("dir", listing)

(***************************************************************************)
(* User events.  A row can be brought on screen by expanding its           *)
(* ancestors, which changes nothing but `expanded`; pointer events are     *)
(* therefore taken for every node of the tree.                             *)
(***************************************************************************)
\* selectNode(node): the checkbox or the row of a leaf is clicked
SelectNode(n) ==
  /\ UNCHANGED <<server, handlers>>
  /\ lastFold' = ""
  /\ tree[n].isLeaf
  /\ Len(queries) < queryLimit
  /\ LET t == [tree EXCEPT ![n].selected = ~@]
     IN /\ tree' = t
        /\ updateExpression(t, compressPath)
  /\ lastDrop' = ""
  /\ UNCHANGED <<movedNodes, compressPath, format, dragEnabled, rawData, currentFile,
                 result, error, loads, dir>>

\* toggleNode(node): the toggle of a row, or the row of a node that is not a
\* leaf, is clicked
ToggleNode(n) ==
  /\ UNCHANGED <<server, handlers>>
  /\ tree' = [tree EXCEPT ![n].expanded = ~@]
  /\ lastDrop' = ""
  /\ lastFold' = "toggle"
  /\ UNCHANGED <<movedNodes, expression, compressPath, format, dragEnabled, rawData,
                 currentFile, result, error, queries, loads, dir>>

\* expand(node) of expandAll, and node.children.forEach(expand)
RECURSIVE expand(_, _)
RECURSIVE expandEach(_, _)
expandEach(t, kids) ==
  IF kids = <<>> THEN t ELSE expandEach(expand(t, kids[1]), Tail(kids))

expand(t, n) ==
  IF t[n].hasChildren
  THEN expandEach([t EXCEPT ![n].expanded = TRUE], t[n].children)
  ELSE t

\* collapse(node) of collapseAll, and node.children.forEach(collapse)
RECURSIVE collapse(_, _)
RECURSIVE collapseEach(_, _)
collapseEach(t, kids) ==
  IF kids = <<>> THEN t ELSE collapseEach(collapse(t, kids[1]), Tail(kids))

collapse(t, n) ==
  IF t[n].hasChildren
  THEN collapseEach([t EXCEPT ![n].expanded = (t[n].path = ".")], t[n].children)
  ELSE t

\* hasSelectedLeaf(node) of collapseEmpty
RECURSIVE hasSelectedLeaf(_, _)
hasSelectedLeaf(t, n) ==
  IF t[n].isLeaf THEN t[n].selected
  ELSE IF ~t[n].hasChildren THEN FALSE
  ELSE \E i \in 1..Len(t[n].children) : hasSelectedLeaf(t, t[n].children[i])

\* process(node) of collapseEmpty, and its forEach over the children
RECURSIVE process(_, _)
RECURSIVE processEach(_, _)
processEach(t, kids) ==
  IF kids = <<>> THEN t
  ELSE LET child == kids[1]
           done == IF ~t[child].hasChildren THEN t
                   ELSE IF hasSelectedLeaf(t, child) THEN process(t, child)
                   ELSE [t EXCEPT ![child].expanded = FALSE]
       IN processEach(done, Tail(kids))

process(t, n) ==
  IF ~t[n].hasChildren THEN t
  ELSE IF hasSelectedLeaf(t, n)
  THEN processEach([t EXCEPT ![n].expanded = TRUE], t[n].children)
  ELSE [t EXCEPT ![n].expanded = (t[n].path = ".")]

\* expandAll(): the button is clicked
ExpandAll ==
  /\ UNCHANGED <<server, handlers>>
  /\ tree' = expand(tree, Root)
  /\ lastDrop' = ""
  /\ lastFold' = "expandAll"
  /\ UNCHANGED <<movedNodes, expression, compressPath, format, dragEnabled, rawData,
                 currentFile, result, error, queries, loads, dir>>

\* collapseAll(): the button is clicked
CollapseAll ==
  /\ UNCHANGED <<server, handlers>>
  /\ tree' = collapse(tree, Root)
  /\ lastDrop' = ""
  /\ lastFold' = "collapseAll"
  /\ UNCHANGED <<movedNodes, expression, compressPath, format, dragEnabled, rawData,
                 currentFile, result, error, queries, loads, dir>>

\* collapseEmpty(): the button is clicked
CollapseEmpty ==
  /\ UNCHANGED <<server, handlers>>
  /\ tree' = process(tree, Root)
  /\ lastDrop' = ""
  /\ lastFold' = "collapseEmpty"
  /\ UNCHANGED <<movedNodes, expression, compressPath, format, dragEnabled, rawData,
                 currentFile, result, error, queries, loads, dir>>

\* the zones onDragOver offers on a row
dropZones(t, n) ==
  IF t[n].isLeaf THEN (IF n = Root THEN {} ELSE {"before", "after"})
  ELSE IF n = Root THEN {"into"}
  ELSE {"before", "into", "after"}

\* the returns of onDrop without the test for a row inside the dragged array
dropOnSelfNoArray(fromPath, toPath) ==
  \/ fromPath = toPath
  \/ startsWith(toPath, fromPath \o ".")

\* the first two returns of onDrop: dropped on itself or on a row below itself
dropOnSelf(fromPath, toPath) ==
  \/ fromPath = toPath
  \/ startsWith(toPath, fromPath \o ".")
  \/ startsWith(toPath, fromPath \o "[")

\* which return ended an ignored drop
ignoredBy(fromPath, toPath) ==
  IF fromPath = toPath THEN "same path"
  ELSE IF startsWith(toPath, fromPath \o ".") THEN "target below source"
  ELSE IF startsWith(toPath, fromPath \o "[") THEN "target below source array"
  ELSE "handler"

\* onDrop in the upper or lower zone of row n, then handleReorder
Reorder(d, n, insertAfter) ==
  /\ UNCHANGED <<server, handlers>>
  /\ lastFold' = ""
  /\ dragEnabled
  /\ d # Root
  /\ (IF insertAfter THEN "after" ELSE "before") \in dropZones(tree, n)
  /\ Len(queries) < queryLimit
  /\ LET fromPath == tree[d].path
         toPath == tree[n].path
         parent == parentOf(tree, n)
         fromIdx == findIndex(tree, tree[parent].children, fromPath)
         toIdx == findIndex(tree, tree[parent].children, toPath)
     IN IF dropOnSelf(fromPath, toPath) \/ reorderRejected(fromIdx, toIdx)
        THEN /\ lastDrop' = "reorder ignored: " \o ignoredBy(fromPath, toPath)
             /\ UNCHANGED <<tree, expression, queries>>
        ELSE /\ LET t == reorderChildren(tree, parent, fromPath, toPath, insertAfter)
                IN /\ tree' = t
                   /\ refreshAfterDrop(t, movedNodes)
             /\ lastDrop' = ""
  /\ UNCHANGED <<movedNodes, compressPath, format, dragEnabled, rawData, currentFile,
                 result, error, loads, dir>>

\* onDrop in the middle zone of container n, then handleMoveInto
MoveInto(d, n) ==
  /\ UNCHANGED <<server, handlers>>
  /\ lastFold' = ""
  /\ dragEnabled
  /\ d # Root
  /\ "into" \in dropZones(tree, n)
  /\ Len(queries) < queryLimit
  /\ LET fromPath == tree[d].path
         toPath == tree[n].path
     IN IF dropOnSelf(fromPath, toPath) \/ moveIntoRejected(tree, fromPath, n)
        THEN /\ lastDrop' = "move-into ignored: " \o ignoredBy(fromPath, toPath)
             /\ UNCHANGED <<tree, movedNodes, expression, queries>>
        ELSE /\ Len(movedNodes) < MaxMoves
             /\ LET t == moveIntoTree(tree, fromPath, n)
                    moved == Append(movedNodes,
                                    moveRecord(fromPath, toPath,
                                               tree[movedNodeOf(tree, fromPath)].key))
                IN /\ tree' = t
                   /\ movedNodes' = moved
                   /\ refreshAfterDrop(t, moved)
             /\ lastDrop' = ""
  /\ UNCHANGED <<compressPath, format, dragEnabled, rawData, currentFile,
                 result, error, loads, dir>>

\* the compression checkbox: watch(compressPath, updateExpression)
SetCompressPath ==
  /\ UNCHANGED <<server, handlers>>
  /\ lastFold' = ""
  /\ Len(queries) < queryLimit
  /\ compressPath' = ~compressPath
  /\ updateExpression(tree, ~compressPath)
  /\ lastDrop' = ""
  /\ UNCHANGED <<tree, movedNodes, format, dragEnabled, rawData, currentFile,
                 result, error, loads, dir>>

\* the format switch: watch(format, runQuery)
SetFormat ==
  /\ UNCHANGED <<server, handlers>>
  /\ lastFold' = ""
  /\ Len(queries) < queryLimit
  /\ format' = (IF format = "json" THEN "table" ELSE "json")
  /\ runQuery(rawData, expression, format')
  /\ lastDrop' = ""
  /\ UNCHANGED <<tree, movedNodes, expression, compressPath, dragEnabled, rawData,
                 currentFile, result, error, loads, dir>>

\* the drag mode switch
SetDragEnabled ==
  /\ UNCHANGED <<server, handlers>>
  /\ lastFold' = ""
  /\ dragEnabled' = ~dragEnabled
  /\ lastDrop' = ""
  /\ UNCHANGED <<tree, movedNodes, expression, compressPath, format, rawData,
                 currentFile, result, error, queries, loads, dir>>

\* loadFile(filename) up to the fetch
LoadFile(filename) ==
  /\ UNCHANGED <<server, handlers>>
  /\ lastFold' = ""
  /\ filename # currentFile
  /\ Len(loads) < MaxLoads
  /\ loads' = Append(loads, filename)
  /\ lastDrop' = ""
  /\ UNCHANGED <<tree, movedNodes, expression, compressPath, format, dragEnabled,
                 rawData, currentFile, result, error, queries, dir>>

(***************************************************************************)
(* Responses                                                               *)
(***************************************************************************)
\* loadFile(filename) from the response on.  ok = FALSE: the server answered
\* with an error or the fetch failed.
LoadResponse(i, ok) ==
  /\ UNCHANGED <<server, handlers>>
  /\ lastFold' = ""
  /\ i \in 1..Len(loads)
  /\ loads' = removeAt(loads, i)
  /\ lastDrop' = ""
  /\ IF ~ok
     THEN /\ error' = "load error"
          /\ UNCHANGED <<tree, movedNodes, expression, rawData, currentFile, queries>>
     ELSE IF buildTreeThrows(Documents[loads[i]])
     THEN /\ currentFile' = loads[i]
          /\ rawData' = loads[i]
          /\ movedNodes' = <<>>
          /\ error' = "TypeError"
          /\ UNCHANGED <<tree, expression, queries>>
     ELSE /\ Len(queries) < queryLimit
          /\ currentFile' = loads[i]
          /\ rawData' = loads[i]
          /\ movedNodes' = <<>>
          /\ tree' = buildRoot(loads[i])
          /\ expression' = "."
          /\ runQuery(loads[i], ".", format)
          /\ UNCHANGED error
  /\ UNCHANGED <<compressPath, format, dragEnabled, result, dir>>

\* a response that is dropped unless it answers the request issued last
QueryResponseLatestOnly(i, ok) ==
  /\ UNCHANGED <<server, handlers>>
  /\ lastFold' = ""
  /\ i \in 1..Len(queries)
  /\ queries' = removeAt(queries, i)
  /\ lastDrop' = ""
  /\ IF i < Len(queries) THEN UNCHANGED <<result, error>>
     ELSE IF ok
     THEN result' = resultOf(queries[i]) /\ error' = ""
     ELSE error' = errorOf(queries[i]) /\ result' = ""
  /\ UNCHANGED <<tree, movedNodes, expression, compressPath, format, dragEnabled,
                 rawData, currentFile, loads, dir>>

\* runQuery() from the response on; ok = FALSE: the engine answered with an error
QueryResponse(i, ok) ==
  /\ UNCHANGED <<server, handlers>>
  /\ lastFold' = ""
  /\ i \in 1..Len(queries)
  /\ queries' = removeAt(queries, i)
  /\ lastDrop' = ""
  /\ IF ok
     THEN result' = resultOf(queries[i]) /\ error' = ""
     ELSE error' = errorOf(queries[i]) /\ result' = ""
  /\ UNCHANGED <<tree, movedNodes, expression, compressPath, format, dragEnabled,
                 rawData, currentFile, loads, dir>>

(***************************************************************************)
(* Spec: one session with every event of the page, on a directory of two   *)
(* small documents and one the Tree Builder cannot take.                    *)
(***************************************************************************)
Init == InitPage(<<"kx.json", "ky.json", "nullitem.json">>, FALSE)

Next ==
  \/ \E n \in Nodes : SelectNode(n)
  \/ \E d \in Nodes, n \in Nodes, insertAfter \in BOOLEAN : Reorder(d, n, insertAfter)
  \/ \E d \in Nodes, n \in Nodes : MoveInto(d, n)
  \/ SetCompressPath
  \/ SetFormat
  \/ SetDragEnabled
  \/ \E i \in 1..Len(dir) : LoadFile(dir[i])
  \/ \E i \in 1..Len(loads), ok \in BOOLEAN : LoadResponse(i, ok)
  \/ \E i \in 1..Len(queries), ok \in BOOLEAN : QueryResponse(i, ok)

Spec == Init /\ [][Next]_vars

(***************************************************************************)
(* SpecTree: the tree, the selection and the expression under drag and     *)
(* drop.  The page is in drag mode, stays on its document, and the query   *)
(* engine answers every request with a result.                             *)
(***************************************************************************)
TreeDocuments == {"deep.json", "flat.json", "items.json", "scenario.json"}

InitTree == \E doc \in TreeDocuments : InitPage(<<doc>>, TRUE)

NextTree ==
  \/ \E n \in Nodes : SelectNode(n)
  \/ \E d \in Nodes, n \in Nodes, insertAfter \in BOOLEAN : Reorder(d, n, insertAfter)
  \/ \E d \in Nodes, n \in Nodes : MoveInto(d, n)
  \/ SetCompressPath
  \/ \E i \in 1..Len(queries) : QueryResponse(i, TRUE)

SpecTree == InitTree /\ [][NextTree]_vars

(***************************************************************************)
(* SpecDocs: the documents of a directory loaded one after the other, with *)
(* leaves selected and queries answered.  The directory holds the shapes   *)
(* the Tree Builder tells apart: a scalar root, an array root, arrays of   *)
(* objects, of arrays, of scalars and of null, empty containers; and the   *)
(* shapes the Expression Synthesizer tells apart: chains of containers     *)
(* that end in a container with two fields, an array inside an array.      *)
(***************************************************************************)
DocsListing ==
  <<"rows.json", "scalar.json", "matrix.json", "numbers.json", "list.json", "nullitem.json",
    "chain.json", "nest.json", "abc.json", "xy.json">>

InitDocs == InitPage(DocsListing, FALSE)

NextDocs ==
  \/ \E n \in Nodes : SelectNode(n)
  \/ SetCompressPath
  \/ \E i \in 1..Len(dir) : LoadFile(dir[i])
  \/ \E i \in 1..Len(loads), ok \in BOOLEAN : LoadResponse(i, ok)
  \/ \E i \in 1..Len(queries), ok \in BOOLEAN : QueryResponse(i, ok)

SpecDocs == InitDocs /\ [][NextDocs]_vars

(***************************************************************************)
(* SpecDup: drag and drop on a document in which a key occurs twice and    *)
(* one key is the beginning of another.                                    *)
(***************************************************************************)
InitDup == InitPage(<<"dup.json">>, TRUE)

SpecDup == InitDup /\ [][NextTree]_vars

(***************************************************************************)
(* SpecOverlap: a session in which a second edit is made before the        *)
(* response to the first has arrived: up to MaxOverlap query requests are  *)
(* in flight and their responses arrive in any order.                      *)
(***************************************************************************)
InitOverlap == InitPage(OverlapListing, FALSE)

NextOverlap ==
  \/ \E n \in Nodes : SelectNode(n)
  \/ SetCompressPath
  \/ SetFormat
  \/ \E i \in 1..Len(dir) : LoadFile(dir[i])
  \/ \E i \in 1..Len(loads), ok \in BOOLEAN : LoadResponse(i, ok)
  \/ \E i \in 1..Len(queries), ok \in BOOLEAN : QueryResponse(i, ok)

SpecOverlap == InitOverlap /\ [][NextOverlap]_vars

(***************************************************************************)
(* SpecExpand: rows are folded and unfolded, one by one and with the three *)
(* buttons, while leaves are selected and moved.  The documents are one    *)
(* with containers inside containers, a scalar and an array of scalars.    *)
(***************************************************************************)
ExpandDocuments == {"items.json", "scalar.json", "vector.json"}

InitExpand == \E doc \in ExpandDocuments : InitPage(<<doc>>, TRUE)

NextExpand ==
  \/ \E n \in Nodes : SelectNode(n)
  \/ \E n \in Nodes : ToggleNode(n)
  \/ ExpandAll
  \/ CollapseAll
  \/ CollapseEmpty
  \/ \E d \in Nodes, n \in Nodes : MoveInto(d, n)
  \/ \E i \in 1..Len(queries) : QueryResponse(i, TRUE)

SpecExpand == InitExpand /\ [][NextExpand]_vars

(***************************************************************************)
(* The server (handler.go).  net/http runs every request in a goroutine of *)
(* its own; the handlers are closures over dirPath and currentFile.  A     *)
(* handler is followed from the arrival of its request to its response;    *)
(* the assignment to currentFile and the reads of it are accesses that     *)
(* begin and end, since nothing in the code orders them.                   *)
(***************************************************************************)
pageVars == <<tree, movedNodes, expression, compressPath, format, dragEnabled,
              rawData, currentFile, result, error, queries, loads, dir, lastDrop, lastFold>>

\* the paths under dirPath that hold valid JSON, and those that hold other text
ValidFiles == {"ky.json", "kx.json", "k..json", "../ky.json", "sub/kx.json"}
InvalidFiles == {"bad.json"}

\* the file names requests ask for; gone.json and "" cannot be read as a file
Filenames == ValidFiles \cup InvalidFiles \cup {"gone.json", ""}

\* what a read of a string finds while it is being written: the pointer of
\* one value with the length of the other
Torn == "(torn)"

\* a file name check that lets names with a slash through
invalidFilenameDotsOnly(filename) == includes(filename, "..")

\* strings.Contains(req.Filename, "..") || strings.Contains(req.Filename, "/")
invalidFilename(filename) == includes(filename, "..") \/ includes(filename, "/")

\* the handler answers and returns
respond(h, text) == [handlers[h] EXCEPT !.pc = "done", !.response = text]

\* the handlers whose access to currentFile has begun and not ended
accessing(kinds) == {g \in DOMAIN handlers : handlers[g].pc \in kinds}

\* an access begins: it races with every access in progress that writes, and
\* a write races with every access in progress
begin(h, pc) ==
  LET others == IF pc = "writing" THEN accessing({"reading", "writing"})
                ELSE accessing({"writing"})
  IN [g \in DOMAIN handlers |->
        IF g = h THEN [handlers[h] EXCEPT !.pc = pc, !.raced = (others # {})]
        ELSE IF g \in others THEN [handlers[g] EXCEPT !.raced = TRUE]
        ELSE handlers[g]]

\* a request arrives and a goroutine is started for it
Arrive(h, kind, method, decodes, filename) ==
  /\ handlers[h].kind = "idle"
  /\ handlers' = [handlers EXCEPT ![h] = [Idle EXCEPT !.kind = kind, !.pc = "start",
                                                       !.method = method,
                                                       !.decodes = decodes,
                                                       !.filename = filename]]
  /\ UNCHANGED server
  /\ UNCHANGED pageVars

\* "/": the page is put together up to the read of currentFile (the embedded
\* index.html is always there)
IndexReadBegin(h) ==
  /\ handlers[h].kind = "index" /\ handlers[h].pc = "start"
  /\ handlers' = begin(h, "reading")
  /\ UNCHANGED server
  /\ UNCHANGED pageVars

\* "/api/files" up to the read of currentFile; listed = FALSE: os.ReadDir fails
FilesReadBegin(h, listed) ==
  /\ handlers[h].kind = "files" /\ handlers[h].pc = "start"
  /\ handlers' = IF server.dirPath = "" \/ ~listed
                 THEN [handlers EXCEPT ![h] = respond(h, "no files")]
                 ELSE begin(h, "reading")
  /\ UNCHANGED server
  /\ UNCHANGED pageVars

\* the read of currentFile ends and the response is written
ReadEnd(h, seen) ==
  /\ handlers[h].pc = "reading"
  /\ seen \in IF handlers[h].raced
              THEN {server.currentFile, Torn}
                   \cup {handlers[g].filename : g \in accessing({"writing"})}
              ELSE {server.currentFile}
  /\ handlers' = [handlers EXCEPT ![h] = respond(h, seen)]
  /\ UNCHANGED server
  /\ UNCHANGED pageVars

\* "/api/load" up to os.ReadFile: method, mode, body and file name are checked
LoadCheck(h) ==
  /\ handlers[h].kind = "load" /\ handlers[h].pc = "start"
  /\ handlers' =
       [handlers EXCEPT ![h] =
          IF handlers[h].method # "POST" THEN respond(h, "Method not allowed")
          ELSE IF server.dirPath = "" THEN respond(h, "Not in directory mode")
          ELSE IF ~handlers[h].decodes THEN respond(h, "decode error")
          ELSE IF invalidFilename(handlers[h].filename) THEN respond(h, "Invalid filename")
          ELSE [handlers[h] EXCEPT !.pc = "read"]]
  /\ UNCHANGED server
  /\ UNCHANGED pageVars

\* os.ReadFile and json.Unmarshal
LoadRead(h) ==
  /\ handlers[h].kind = "load" /\ handlers[h].pc = "read"
  /\ handlers' =
       [handlers EXCEPT ![h] =
          LET read == [handlers[h] EXCEPT !.didRead = TRUE]
          IN IF handlers[h].filename \notin ValidFiles \cup InvalidFiles
             THEN [read EXCEPT !.pc = "done", !.response = "read error"]
             ELSE IF handlers[h].filename \in InvalidFiles
             THEN [read EXCEPT !.pc = "done", !.response = "Invalid JSON"]
             ELSE [read EXCEPT !.pc = "write"]]
  /\ UNCHANGED server
  /\ UNCHANGED pageVars

\* currentFile = req.Filename begins
LoadWriteBegin(h) ==
  /\ handlers[h].kind = "load" /\ handlers[h].pc = "write"
  /\ handlers' = begin(h, "writing")
  /\ UNCHANGED server
  /\ UNCHANGED pageVars

\* currentFile = req.Filename ends, and the document is sent
LoadWriteEnd(h, stored) ==
  /\ handlers[h].kind = "load" /\ handlers[h].pc = "writing"
  /\ stored \in IF handlers[h].raced /\ accessing({"writing"}) # {h}
                THEN {handlers[h].filename, Torn}
                ELSE {handlers[h].filename}
  /\ server' = [server EXCEPT !.currentFile = stored]
  /\ handlers' = [handlers EXCEPT ![h] = [handlers[h] EXCEPT !.pc = "done", !.wrote = TRUE,
                                                             !.response = "data"]]
  /\ UNCHANGED pageVars

\* the response is on its way and the goroutine ends
Return(h) ==
  /\ handlers[h].pc = "done"
  /\ handlers' = [handlers EXCEPT ![h] = Idle]
  /\ UNCHANGED server
  /\ UNCHANGED pageVars

(***************************************************************************)
(* SpecServer: requests of any client arrive at the server, up to          *)
(* MaxHandlers at a time, with and without a directory.  The page of the   *)
(* model stays as it was mounted.                                          *)
(***************************************************************************)
ServerListing == <<"ky.json", "kx.json">>

InitServer ==
  \/ InitPage(ServerListing, FALSE)
  \/ mounted(<<>>, "", "ky.json", FALSE) /\ InitHandler("", <<>>)

NextServer ==
  \/ \E h \in 1..MaxHandlers : Arrive(h, "index", "GET", FALSE, "")
  \/ \E h \in 1..MaxHandlers : Arrive(h, "files", "GET", FALSE, "")
  \/ \E h \in 1..MaxHandlers, method \in {"GET", "POST"}, filename \in Filenames :
       Arrive(h, "load", method, TRUE, filename)
  \/ \E h \in 1..MaxHandlers : Arrive(h, "load", "POST", FALSE, "")
  \/ \E h \in 1..MaxHandlers : IndexReadBegin(h)
  \/ \E h \in 1..MaxHandlers, listed \in BOOLEAN : FilesReadBegin(h, listed)
  \/ \E h \in 1..MaxHandlers, seen \in Filenames \cup {Torn} : ReadEnd(h, seen)
  \/ \E h \in 1..MaxHandlers : LoadCheck(h)
  \/ \E h \in 1..MaxHandlers : LoadRead(h)
  \/ \E h \in 1..MaxHandlers : LoadWriteBegin(h)
  \/ \E h \in 1..MaxHandlers, stored \in Filenames \cup {Torn} : LoadWriteEnd(h, stored)
  \/ \E h \in 1..MaxHandlers : Return(h)

SpecServer == InitServer /\ [][NextServer]_vars

(***************************************************************************)
(* Reading a state: the nodes below a node, the addresses of the tree as   *)
(* built, and the leaf fields written in an expression                     *)
(***************************************************************************)
RECURSIVE subtree(_, _)
subtree(t, n) ==
  {n} \cup UNION {subtree(t, t[n].children[i]) : i \in 1..Len(t[n].children)}

\* the node as the Tree Builder made it
built(n) == buildRoot(rawData)[n]

\* index of x in the sequence s, 0 when absent
position(s, x) == IF \E i \in 1..Len(s) : s[i] = x THEN CHOOSE i \in 1..Len(s) : s[i] = x ELSE 0

without(s, x) == SelectSeq(s, LAMBDA y : y # x)

\* how many move records carry the key of node n (keys are unique in the documents of SpecTree)
movesOf(n) == Cardinality({j \in 1..Len(movedNodes) : movedNodes[j].key = tree[n].key})

\* the leaf fields "key: source" of an expression, left to right: a colon
\* followed by a path or a $root reference, the key back to the brace or
\* blank before it, the source up to the next comma or closing brace
RECURSIVE keyStart(_, _)
keyStart(e, i) == IF i >= 1 /\ charAt(e, i) \notin {"{", " "} THEN keyStart(e, i - 1) ELSE i + 1

RECURSIVE sourceEnd(_, _)
sourceEnd(e, i) ==
  IF i < Len(e) /\ charAt(e, i + 1) \notin {",", "}"} THEN sourceEnd(e, i + 1) ELSE i

RECURSIVE fieldsFrom(_, _)
fieldsFrom(e, i) ==
  IF i + 2 > Len(e) THEN <<>>
  ELSE IF SubSeq(e, i, i + 1) = ": " /\ charAt(e, i + 2) \in {".", "$"}
  THEN <<[key |-> SubSeq(e, keyStart(e, i - 1), i - 1),
          source |-> SubSeq(e, i + 2, sourceEnd(e, i + 2))]>> \o fieldsFrom(e, i + 2)
  ELSE fieldsFrom(e, i + 1)

fieldsOf(e) == fieldsFrom(e, 1)

fieldSet(e) == LET fields == fieldsOf(e) IN {fields[i] : i \in 1..Len(fields)}

\* position of the field written under key k, 0 when there is none
fieldIndex(e, k) ==
  LET fields == fieldsOf(e)
  IN IF \E i \in 1..Len(fields) : fields[i].key = k
     THEN CHOOSE i \in 1..Len(fields) : fields[i].key = k
     ELSE 0

(***************************************************************************)
(* Claims                                                                  *)
(***************************************************************************)
\* a step in which the drop of d into n was carried out
movedInto(d, n) == movedNodes' # movedNodes /\ MoveInto(d, n)

\* C1: after a successful MoveInto of node d into any container, every
\* selected leaf below d (d included) is collected with the address it had
\* before the move as its sourcePath.
C1_MoveIntoKeepsSource ==
  [][\A d \in Nodes, n \in Nodes :
       movedInto(d, n) =>
         LET leaves == selectedLeaves(tree', Root)
             entries == collectSelected(tree', movedNodes')
         IN \A i \in 1..Len(leaves) :
              leaves[i] \in subtree(tree', d) => entries[i].sourcePath = tree[leaves[i]].path]_vars

\* C2: in the document {"meta":{"owner":1},"items":[{"x":1}]}, with the leaf
\* owner moved into the array items and owner and x both selected, the
\* expression starts with the root binding, reads owner as $root.meta.owner
\* and reads x relative to the iteration over .items[].
C2_ScenarioExpression ==
  (/\ rawData = "scenario.json"
   /\ movedNodes = <<moveRecord(".meta.owner", ".items", "owner")>>
   /\ parentOf(tree, 3) = 4
   /\ tree[3].selected
   /\ tree[5].selected)
  => /\ startsWith(expression, ". as $root | ")
     /\ includes(expression, "[.items[] | ")
     /\ [key |-> "owner", source |-> "$root.meta.owner"] \in fieldSet(expression)
     /\ [key |-> "x", source |-> ".x"] \in fieldSet(expression)

\* C3: once a node has been moved two or more times, every selected leaf
\* below it is collected with its address in the tree as built.
C3_SourceIsBuiltAddress ==
  LET leaves == selectedLeaves(tree, Root)
      entries == collectSelected(tree, movedNodes)
  IN \A i \in 1..Len(leaves) :
       (\E n \in Nodes : leaves[i] \in subtree(tree, n) /\ movesOf(n) >= 2)
         => entries[i].sourcePath = built(leaves[i]).path

\* C4: the move records hold at most one record per moved node, and a
\* MoveInto of a node that has a record changes only toPath and key of that
\* record, originalPath staying what it was.
C4_OneRecordPerNode ==
  [][/\ \A n \in DOMAIN tree' :
          Cardinality({j \in 1..Len(movedNodes') : movedNodes'[j].key = tree'[n].key}) <= 1
     /\ \A d \in Nodes, n \in Nodes :
          (movedInto(d, n) /\ movesOf(d) > 0) =>
             /\ Len(movedNodes') = Len(movedNodes)
             /\ \A j \in 1..Len(movedNodes) :
                  /\ movedNodes'[j].originalPath = movedNodes[j].originalPath
                  /\ movedNodes[j].key # tree[d].key => movedNodes'[j] = movedNodes[j]
                  /\ movedNodes[j].key = tree[d].key => movedNodes'[j].toPath = tree[n].path]_vars

\* C5: the move records only grow by the record of a successful MoveInto,
\* and they are emptied exactly by a file switch that rebuilds the tree.
C5_RecordsAppendOnly ==
  [][/\ \/ movedNodes' = movedNodes
        \/ /\ Len(movedNodes') = Len(movedNodes) + 1
           /\ SubSeq(movedNodes', 1, Len(movedNodes)) = movedNodes
           /\ \E d \in Nodes, n \in Nodes : MoveInto(d, n)
        \/ /\ movedNodes' = <<>>
           /\ \E i \in 1..Len(loads) : LoadResponse(i, TRUE)
           /\ ~buildTreeThrows(Documents[rawData'])
           /\ tree' = buildRoot(rawData')
     /\ (\E i \in 1..Len(loads) : LoadResponse(i, TRUE)) => movedNodes' = <<>>]_vars

\* C6: MoveInto of d into d itself or into a node below d, below an array
\* included, changes neither the tree nor the records nor the expression,
\* and sends no query.
C6_MoveIntoOwnSubtreeIsNoOp ==
  [][\/ UNCHANGED <<tree, movedNodes, expression, queries, result, error>>
     \/ \A d \in Nodes, n \in Nodes : ~(n \in subtree(tree, d) /\ MoveInto(d, n))]_vars

\* a move into a row inside the dragged array has just been ignored
C6_Witness ==
  /\ lastDrop = "move-into ignored: target below source array"
  /\ rawData = "items.json"

reordered(d, n, insertAfter) == queries' # queries /\ Reorder(d, n, insertAfter)

builderPath(parent, key) ==
  IF parent.isArray THEN parent.path \o "[]." \o key
  ELSE IF parent.path = "." THEN "." \o key
  ELSE parent.path \o "." \o key

\* C10: a successful MoveInto of d into n gives d the address of n followed
\* by "." (object) or "[]." (array) and the key, gives every node below d its
\* old address with the old base replaced by the new one, and all these
\* addresses have the form the Tree Builder gives a node at that position.
C10_MoveIntoAddresses ==
  [][\A d \in Nodes, n \in Nodes :
       movedInto(d, n) =>
         /\ tree'[d].path = tree[n].path \o (IF tree[n].isArray THEN "[]." ELSE ".") \o tree[d].key
         /\ \A m \in subtree(tree, d) :
              /\ tree'[m].path = tree'[d].path \o slice(tree[m].path, Len(tree[d].path))
              /\ tree'[m].path = builderPath(tree'[parentOf(tree', m)], tree'[m].key)]_vars

\* the nodes reached from n through children, in depth-first order
RECURSIVE reached(_, _)
RECURSIVE reachedInList(_, _)
reachedInList(t, kids) ==
  IF kids = <<>> THEN <<>> ELSE reached(t, kids[1]) \o reachedInList(t, Tail(kids))

reached(t, n) == <<n>> \o reachedInList(t, t[n].children)

\* every node the Tree Builder made is reached from the root exactly once
conserved ==
  LET nodes == reached(tree, Root)
  IN /\ DOMAIN tree = DOMAIN buildRoot(rawData)
     /\ Len(nodes) = Len(tree)
     /\ {nodes[i] : i \in 1..Len(nodes)} = DOMAIN tree

\* C11: a successful MoveInto of d into n takes d out of the children of its
\* old parent and makes it the last child of n, expands n, and leaves every
\* node outside the subtree of d with its parent, its place among its
\* siblings and its address; after every Reorder and MoveInto each node the
\* Tree Builder made is reached from the root exactly once.
C11_MoveIntoConservesTree ==
  [][/\ tree' # tree => conserved'
     /\ \A d \in Nodes, n \in Nodes :
          movedInto(d, n) =>
            /\ tree'[n].children = Append(without(tree[n].children, d), d)
            /\ tree'[n].expanded
            /\ parentOf(tree', d) = n
            /\ \A m \in Nodes \ {n} : tree'[m].children = without(tree[m].children, d)
            /\ \A m \in Nodes \ subtree(tree, d) :
                 /\ tree'[m].path = tree[m].path
                 /\ tree'[m].key = tree[m].key
                 /\ m # Root => parentOf(tree', m) = parentOf(tree, m)]_vars

\* C12: whatever the tree and the move records, with no leaf selected the
\* expression on the page is "." and the synthesis for the empty selection
\* gives ".", without root binding.
C12_EmptySelectionIsIdentity ==
  selectedLeaves(tree, Root) = <<>> =>
    /\ expression = "."
    /\ collectSelected(tree, movedNodes) = <<>>
    /\ buildNestedExpr(collectSelected(tree, movedNodes), compressPath) = "."

\* two moves were made, nothing is selected and the query for "." has been answered
C12_Witness ==
  /\ Len(movedNodes) = MaxMoves
  /\ selectedLeaves(tree, Root) = <<>>
  /\ expression = "."
  /\ queries = <<>>
  /\ result = resultOf(queryRequest(rawData, ".", format))

\* how often the character c occurs in e
occurrences(e, c) == Cardinality({i \in 1..Len(e) : charAt(e, i) = c})

\* C13: in every reachable state the expression is a non-empty string with
\* its braces and brackets paired, also after the root of a scalar document
\* has been selected.
C13_ExpressionNeverEmpty ==
  /\ expression # ""
  /\ occurrences(expression, "{") = occurrences(expression, "}")
  /\ occurrences(expression, "[") = occurrences(expression, "]")

\* C14: for every document the server delivers, buildTree raises no error
\* and returns the tree of that document: after the response of a load the
\* page shows the tree built from the new document and no new error.
C14_TreeBuilderTotal ==
  [][\A i \in 1..Len(loads) :
       (loads' # loads /\ LoadResponse(i, TRUE)) =>
         /\ ~buildTreeThrows(Documents[rawData'])
         /\ tree' = buildRoot(rawData')
         /\ error' = error]_vars

\* a load whose document the Tree Builder has turned into a new tree
loaded(i) ==
  /\ loads' # loads
  /\ ~buildTreeThrows(Documents[loads[i]])
  /\ LoadResponse(i, TRUE)

\* below node n, built for the value data, only objects and arrays whose
\* first element is an object have children
RECURSIVE fieldsOnlyUnderObjects(_, _, _)
fieldsOnlyUnderObjects(t, n, data) ==
  LET fields == IF data.t = "object" THEN data.kv
                ELSE IF data.t = "array" /\ Len(data.kv) > 0 /\ data.kv[1].v.t = "object"
                THEN data.kv[1].v.kv
                ELSE <<>>
  IN /\ Len(t[n].children) = Len(fields)
     /\ \A i \in 1..Len(fields) : fieldsOnlyUnderObjects(t, t[n].children[i], fields[i].v)

\* C15: in a tree the Tree Builder has built, a node has children only if
\* its value is an object or an array whose first element is an object: an
\* empty array, an array that starts with a scalar, with null or with an
\* array, and a scalar have none.
C15_ChildrenOnlyForObjectArrays ==
  [][\A i \in 1..Len(loads) :
       loaded(i) => fieldsOnlyUnderObjects(tree', Root, Documents[loads[i]])]_vars

\* node n is the node of the value data at the address path: it is
\* unselected and open only as the root, an object has one child per key in
\* key order at path.key, an array that starts with an object one child per
\* key of that first element at path[].key
RECURSIVE builtAs(_, _, _, _, _)
builtAs(t, n, data, key, path) ==
  LET ofArray == data.t = "array" /\ Len(data.kv) > 0 /\ data.kv[1].v.t = "object"
      fields == IF data.t = "object" THEN data.kv
                ELSE IF ofArray THEN data.kv[1].v.kv
                ELSE <<>>
      base == IF ofArray THEN path \o "[]." ELSE IF path = "." THEN "." ELSE path \o "."
  IN /\ t[n].key = key
     /\ t[n].path = path
     /\ t[n].expanded = (n = Root)
     /\ ~t[n].selected
     /\ (data.t = "object" \/ ofArray) =>
          /\ Len(t[n].children) = Len(fields)
          /\ \A i \in 1..Len(fields) :
               builtAs(t, t[n].children[i], fields[i].v, fields[i].k, base \o fields[i].k)

\* C16: a tree the Tree Builder has built has one root at ".", open and
\* unselected; an object has exactly one child per key, in key order, at
\* parent.key; an array whose first element is an object has exactly one
\* child per key of that first element, at parent[].key, whatever its length
\* and its other elements; every other node is closed and unselected.
C16_TreeShape ==
  [][\A i \in 1..Len(loads) :
       loaded(i) =>
         /\ builtAs(tree', Root, Documents[loads[i]], "root", ".")
         /\ \A n \in DOMAIN tree' : n # Root => ~tree'[n].expanded /\ ~tree'[n].selected
         /\ Len(reached(tree', Root)) = Len(tree')]_vars

\* rows.json, whose array holds {"a":1} and {"b":2,"c":3}, has been loaded
\* again after list.json: the array has the one child a
C16_Witness ==
  /\ rawData = "rows.json"
  /\ result = resultOf(queryRequest("list.json", ".", "json"))
  /\ Len(queries) = 1
  /\ tree[2].children = <<3>>
  /\ tree[3].path = ".rows[].a"

\* C17: in every reachable tree, whatever Reorder and MoveInto did, also a
\* MoveInto into a container that already has a child with the moved key, no
\* two distinct nodes have the same address.
C17_AddressesUnique ==
  \A m \in Nodes, n \in Nodes : m # n => tree[m].path # tree[n].path

\* the move records whose new-address prefix is a prefix of path
matching(path) ==
  {j \in 1..Len(movedNodes) : startsWith(path, movedNewPathPrefix(movedNodes[j]))}

\* the matching records with the longest prefix
longest(path) ==
  {j \in matching(path) :
     \A k \in matching(path) :
       Len(movedNewPathPrefix(movedNodes[k])) <= Len(movedNewPathPrefix(movedNodes[j]))}

\* C18: when the new addresses of several move records are prefixes of the
\* address of a selected leaf, the leaf is collected with the source the
\* record of the longest prefix gives, whatever the order of the moves.
C18_LongestPrefixWins ==
  LET entries == collectSelected(tree, movedNodes)
  IN \A i \in 1..Len(entries) :
       Cardinality(matching(entries[i].path)) >= 2 =>
         \E j \in longest(entries[i].path) :
           entries[i].sourcePath =
             movedNodes[j].originalPath
               \o slice(entries[i].path, Len(movedNewPathPrefix(movedNodes[j])))

\* C19: every entry collectSelected produces is marked moved exactly when
\* its source address differs from its address in the tree; a node dropped
\* into the container that is already its parent leaves its leaves unmarked.
C19_MovedIffSourceDiffers ==
  LET entries == collectSelected(tree, movedNodes)
  IN \A i \in 1..Len(entries) :
       entries[i].isMoved <=> entries[i].sourcePath # entries[i].path

\* node n and the containers it lies in, up to the root
RECURSIVE lineage(_, _)
lineage(t, n) == IF n = Root THEN {Root} ELSE {n} \cup lineage(t, parentOf(t, n))

\* no move record was written for n or for a container n lies in
neverMoved(n) ==
  \A m \in lineage(tree, n) : \A j \in 1..Len(movedNodes) : movedNodes[j].key # tree[m].key

\* C20: a selected leaf that was never moved and lies in no moved container
\* is collected with its own address as source and unmarked, whatever was
\* moved elsewhere: also next to a moved node whose new address is a
\* character prefix of the leaf's address (keys x and xy).
C20_UnmovedLeafKeepsAddress ==
  LET leaves == selectedLeaves(tree, Root)
      entries == collectSelected(tree, movedNodes)
  IN \A i \in 1..Len(leaves) :
       neverMoved(leaves[i]) =>
         entries[i].sourcePath = entries[i].path /\ ~entries[i].isMoved

\* the text that binds the document as $root in front of an expression
rootBinding == ". as $root | "

\* the expression after its root binding, the whole expression when it has none
body(e) == IF startsWith(e, rootBinding) THEN slice(e, Len(rootBinding)) ELSE e

\* C21: the generated expression starts with the root binding exactly when
\* at least one selected entry is marked moved, and $root is read only in an
\* expression that starts with the binding; the same holds for the
\* expression stored on the page.
C21_RootBoundWhenMoved ==
  LET entries == collectSelected(tree, movedNodes)
      e == buildNestedExpr(entries, compressPath)
  IN /\ startsWith(e, rootBinding) <=> \E i \in 1..Len(entries) : entries[i].isMoved
     /\ includes(body(e), "$root") => startsWith(e, rootBinding)
     /\ includes(body(expression), "$root") => startsWith(expression, rootBinding)

\* a moved leaf and a leaf that was not moved are selected: the stored
\* expression is bound and reads $root for the moved one
C21_Witness ==
  LET entries == collectSelected(tree, movedNodes)
  IN /\ \E i \in 1..Len(entries) : entries[i].isMoved
     /\ \E i \in 1..Len(entries) : ~entries[i].isMoved
     /\ expression = buildNestedExpr(entries, compressPath)
     /\ startsWith(expression, rootBinding)
     /\ includes(body(expression), "$root.")

\* the selected leaves in depth-first pre-order of the current child order
selectedInOrder ==
  SelectSeq(reached(tree, Root), LAMBDA n : tree[n].selected /\ tree[n].isLeaf)

\* C22: collectSelected returns the selected leaves of the tree, each once,
\* in depth-first pre-order of the current child order, numbered 0, 1, ...
\* in that sequence, whether the containers above them are open or closed.
C22_CollectInTreeOrder ==
  LET entries == collectSelected(tree, movedNodes)
      leaves == selectedInOrder
  IN /\ Len(entries) = Len(leaves)
     /\ \A i \in 1..Len(leaves) :
          /\ entries[i].path = tree[leaves[i]].path
          /\ entries[i].key = tree[leaves[i]].key
          /\ entries[i].order = i - 1
     /\ \A i \in 1..Len(leaves), j \in 1..Len(leaves) : leaves[i] = leaves[j] => i = j

\* items.json after x was dragged in front of sub: x and sub.y are
\* selected, x comes first, and sub is closed
C22_Witness ==
  /\ rawData = "items.json"
  /\ tree[2].children = <<5, 3>>
  /\ ~tree[3].expanded
  /\ selectedInOrder = <<5, 4>>
  /\ collectSelected(tree, movedNodes)[1].key = "x"
  /\ collectSelected(tree, movedNodes)[2].order = 1

(***************************************************************************)
(* Reading the levels of an expression.  Every "{" opens an object         *)
(* construction (a level); "key: " starts an entry of the innermost open   *)
(* level; an entry whose value starts with "." or "$" is a leaf field.     *)
(* A leaf field is read with the keys of the entries it lies in (its       *)
(* chain, array markers left out) and with the entry it belongs to at      *)
(* every level (its spine).                                                *)
(***************************************************************************)
RECURSIVE withoutMarkers(_)
withoutMarkers(s) ==
  IF Len(s) < 2 THEN s
  ELSE IF SubSeq(s, 1, 2) = "[]" THEN withoutMarkers(slice(s, 2))
  ELSE charAt(s, 1) \o withoutMarkers(slice(s, 1))

unquote(k) ==
  IF Len(k) >= 2 /\ charAt(k, 1) = "\"" /\ charAt(k, Len(k)) = "\""
  THEN SubSeq(k, 2, Len(k) - 1) ELSE k

Least(S) == CHOOSE x \in S : \A y \in S : x <= y

\* position i of e opens or closes a level or a list, or ends a key; the
\* brackets of an array marker [] are none of these
marked(e, i) ==
  \/ charAt(e, i) \in {"{", "}"}
  \/ charAt(e, i) = "[" /\ charAt(e, i + 1) # "]"
  \/ charAt(e, i) = "]" /\ charAt(e, i - 1) # "["
  \/ i + 2 <= Len(e) /\ SubSeq(e, i, i + 1) = ": "

\* the first marked position from i on, Len(e) + 1 when there is none
nextMark(e, i) ==
  LET marks == {j \in i..Len(e) : marked(e, j)}
  IN IF marks = {} THEN Len(e) + 1 ELSE Least(marks)

\* what a list construction opened at i iterates over: the text up to " | "
iterated(e, i) ==
  LET bars == {j \in (i + 1)..(Len(e) - 2) : SubSeq(e, j, j + 2) = " | "}
  IN IF bars = {} THEN "" ELSE SubSeq(e, i + 1, Least(bars) - 1)

RECURSIVE leafFieldsFrom(_, _, _, _)
leafFieldsFrom(e, i, stack, lists) ==
  IF i > Len(e) THEN <<>>
  ELSE IF charAt(e, i) = "{"
  THEN leafFieldsFrom(e, nextMark(e, i + 1),
                      Append(stack, [brace |-> i, entry |-> 0, key |-> ""]), lists)
  ELSE IF charAt(e, i) = "}"
  THEN leafFieldsFrom(e, nextMark(e, i + 1), SubSeq(stack, 1, Len(stack) - 1), lists)
  ELSE IF charAt(e, i) = "["
  THEN leafFieldsFrom(e, nextMark(e, i + 1), stack, Append(lists, [base |-> iterated(e, i), at |-> i]))
  ELSE IF charAt(e, i) = "]"
  THEN leafFieldsFrom(e, nextMark(e, i + 1), stack, SubSeq(lists, 1, Len(lists) - 1))
  ELSE IF stack = <<>> THEN leafFieldsFrom(e, nextMark(e, i + 1), stack, lists)
  ELSE LET start == keyStart(e, i - 1)
           open == [stack EXCEPT ![Len(stack)].entry = start,
                                 ![Len(stack)].key =
                                   withoutMarkers(unquote(SubSeq(e, start, i - 1)))]
       IN IF charAt(e, i + 2) \in {".", "$"}
          THEN <<[chain |-> join([d \in 1..Len(open) |-> open[d].key], "."),
                  spine |-> [d \in 1..Len(open) |->
                               [brace |-> open[d].brace, entry |-> open[d].entry]],
                  lists |-> lists,
                  key |-> SubSeq(e, start, i - 1),
                  source |-> SubSeq(e, i + 2, sourceEnd(e, i + 2))]>>
               \o leafFieldsFrom(e, nextMark(e, i + 2), open, lists)
          ELSE leafFieldsFrom(e, nextMark(e, i + 2), open, lists)

leafFields(e) == leafFieldsFrom(e, nextMark(e, 1), <<>>, <<>>)

\* the keys a selected leaf is written under: its address without the
\* leading dot and the array markers
chainOf(path) ==
  LET segs == parseSegments(path)
  IN join([i \in 1..Len(segs) |-> dropMarker(segs[i])], ".")

\* the smallest order among the selected leaves written under a chain
orderOf(entries, chain) ==
  Least({entries[i].order : i \in {j \in 1..Len(entries) : chainOf(entries[j].path) = chain}})

\* every leaf field of e is the field of a selected leaf
allCollected(entries, fields) ==
  \A f \in 1..Len(fields) : \E i \in 1..Len(entries) : chainOf(entries[i].path) = fields[f].chain

\* the smallest order of the leaves below the entry of field f at depth d
entryOrder(entries, fields, f, d) ==
  Least({orderOf(entries, fields[g].chain) :
           g \in {h \in 1..Len(fields) :
                    Len(fields[h].spine) >= d /\ fields[h].spine[d] = fields[f].spine[d]}})

\* at every level the entries follow the smallest order of the leaves below them
levelsInOrder(entries, fields) ==
  \A f \in 1..Len(fields), g \in 1..Len(fields) :
    \A d \in 1..Len(fields[f].spine) :
      (/\ d <= Len(fields[g].spine)
       /\ fields[f].spine[d].brace = fields[g].spine[d].brace
       /\ fields[f].spine[d].entry < fields[g].spine[d].entry)
        => entryOrder(entries, fields, f, d) < entryOrder(entries, fields, g, d)

\* C23: in every object construction of the generated expression, plain or
\* inside an array iteration, compressed or not, the entries stand in
\* ascending order of the smallest order of the selected leaves below them.
C23_LevelsFollowOrder ==
  LET entries == collectSelected(tree, movedNodes)
      fields == leafFields(buildNestedExpr(entries, compressPath))
  IN allCollected(entries, fields) /\ levelsInOrder(entries, fields)

\* C24: read from left to right, the leaf fields of the whole generated
\* expression stand in ascending order of the selected leaves on screen,
\* also when an array leaf precedes a plain leaf on screen.
C24_FieldsFollowOrder ==
  LET entries == collectSelected(tree, movedNodes)
      fields == leafFields(buildNestedExpr(entries, compressPath))
  IN /\ allCollected(entries, fields)
     /\ \A f \in 1..Len(fields), g \in 1..Len(fields) :
          f < g => orderOf(entries, fields[f].chain) < orderOf(entries, fields[g].chain)

\* the array base of an address: its segments up to the first array marker
baseOf(path) ==
  LET at == Least({i \in 1..(Len(path) - 1) : SubSeq(path, i, i + 1) = "[]"})
      segs == splitDots(SubSeq(path, 1, at - 1), 1, "")
  IN IF segs = <<>> THEN ".[]" ELSE "." \o join(segs, ".") \o "[]"

\* C25: every selected leaf whose address holds an array marker is written
\* inside a list construction that iterates over its array base, also in a
\* document whose root is an array (address .[].key); every selected leaf
\* without a marker is written outside every list construction.  The leaf
\* that is the root itself has no key to be written under and is left out.
C25_ArrayLeavesInLists ==
  LET entries == collectSelected(tree, movedNodes)
      fields == leafFields(buildNestedExpr(entries, compressPath))
  IN \A i \in 1..Len(entries) :
       entries[i].path # "." =>
       \E f \in 1..Len(fields) :
         /\ fields[f].chain = chainOf(entries[i].path)
         /\ IF includes(entries[i].path, "[]")
            THEN fields[f].lists # <<>> /\ fields[f].lists[1].base = baseOf(entries[i].path)
            ELSE fields[f].lists = <<>>

\* the entries of the level opened at brace, by the position of their keys
entriesAt(fields, brace) ==
  UNION {{fields[f].spine[d].entry :
            d \in {c \in 1..Len(fields[f].spine) : fields[f].spine[c].brace = brace}} :
         f \in 1..Len(fields)}

\* the levels of an expression, by the position of their opening brace
levelsOf(fields) ==
  UNION {{fields[f].spine[d].brace : d \in 1..Len(fields[f].spine)} : f \in 1..Len(fields)}

\* the level opened at brace only wraps the list of an array group in the
\* parents of its base: all that is written in it lies in a list opened after it
wraps(fields, brace) ==
  \A f \in 1..Len(fields) :
    (\E d \in 1..Len(fields[f].spine) : fields[f].spine[d].brace = brace)
      => fields[f].lists # <<>> /\ fields[f].lists[1].at > brace

\* compressed: no object with a single entry is the value of a key, but for
\* the objects that wrap an array group, and a key is quoted exactly when it
\* is composite
compressed(e, fields) ==
  /\ \A brace \in levelsOf(fields) :
       (brace > 2 /\ SubSeq(e, brace - 2, brace - 1) = ": ") =>
          \/ Cardinality(entriesAt(fields, brace)) >= 2
          \/ wraps(fields, brace)
  /\ \A f \in 1..Len(fields) :
       includes(fields[f].key, ".") <=> charAt(fields[f].key, 1) = "\""

\* nested: every segment of a leaf has its own object and no key is composite
nested(fields) ==
  \A f \in 1..Len(fields) :
    /\ Len(fields[f].spine) = Len(splitDots(fields[f].chain, 1, ""))
    /\ ~includes(fields[f].key, ".") /\ ~includes(fields[f].key, "\"")

C27_CompressionKeepsFields ==
  LET entries == collectSelected(tree, movedNodes)
      on == leafFields(buildNestedExpr(entries, TRUE))
      off == leafFields(buildNestedExpr(entries, FALSE))
  IN /\ Len(on) = Len(off)
     /\ \A f \in 1..Len(on) :
          on[f].chain = off[f].chain /\ on[f].source = off[f].source

\* all four leaves of chain.json are selected with compression off, and the
\* compressed expression would spell the keys differently
C27_Witness ==
  /\ rawData = "chain.json"
  /\ ~compressPath
  /\ Len(selectedInOrder) = 4
  /\ expression = "{a: {b: {c: .a.b.c, d: .a.b.d}}} * {n: [.n[] | {f: {g: .f.g, h: .f.h}}]}"
  /\ buildNestedExpr(collectSelected(tree, movedNodes), TRUE) # expression

\* how often p occurs in s
count(s, p) == Cardinality({i \in 1..(Len(s) - Len(p) + 1) : SubSeq(s, i, i + Len(p) - 1) = p})

\* the fragments an expression is to be made of: one for the plain leaves,
\* one for every array base
fragments(entries) ==
  (IF \E i \in 1..Len(entries) : ~includes(entries[i].path, "[]") THEN 1 ELSE 0)
  + Cardinality({baseOf(entries[i].path) :
                   i \in {j \in 1..Len(entries) : includes(entries[j].path, "[]")}})

\* field f is the field of the array leaf entry: it lies in the list over
\* the base of the leaf, below one object for every parent segment of the
\* base, and reads the leaf relative to the item, or through $root when moved
groupedAs(entry, field) ==
  LET base == baseOf(entry.path)
  IN /\ field.chain = chainOf(entry.path)
     /\ field.lists # <<>>
     /\ field.lists[1].base = base
     /\ Cardinality({d \in 1..Len(field.spine) : field.spine[d].brace < field.lists[1].at})
          = Len(splitDots(sliceEnd(base, 2), 1, ""))
     /\ field.source = (IF entry.isMoved THEN "$root" \o entry.sourcePath
                        ELSE slice(entry.sourcePath, Len(base)))

\* C28: the array leaves are grouped by array base, one list construction
\* per base; in a group a leaf that is not moved is read relative to the
\* item, a moved leaf by its original address through $root; the list is
\* wrapped in one object per parent segment of the base; the fragments are
\* joined with " * " only when there are several.  For
\* {"items":[{"x":1,"y":2}]} with x and y selected the expression is
\* {items: [.items[] | {x: .x, y: .y}]}.
C28_ArrayGroups ==
  LET entries == collectSelected(tree, movedNodes)
      e == buildNestedExpr(entries, compressPath)
      fields == leafFields(e)
      arrays == {i \in 1..Len(entries) : includes(entries[i].path, "[]")}
  IN /\ \A i \in arrays : \E f \in 1..Len(fields) : groupedAs(entries[i], fields[f])
     /\ \A f \in 1..Len(fields), g \in 1..Len(fields) :
          (fields[f].lists # <<>> /\ fields[g].lists # <<>>
           /\ fields[f].lists[1].base = fields[g].lists[1].base)
            => fields[f].lists[1].at = fields[g].lists[1].at
     /\ entries # <<>> => count(e, " * ") = fragments(entries) - 1
     /\ (rawData = "xy.json" /\ Len(selectedInOrder) = 2) =>
          e = "{items: [.items[] | {x: .x, y: .y}]}"

\* the keys of the object constructions of an expression: the text in
\* front of every ": ", back to the brace or blank before it
keysOf(e) ==
  {SubSeq(e, keyStart(e, i - 1), i - 1) :
     i \in {j \in 2..(Len(e) - 1) : SubSeq(e, j, j + 1) = ": "}}

\* a field name: one or more characters, none of them punctuation of the syntax
plainName(k) ==
  /\ k # ""
  /\ \A i \in 1..Len(k) : charAt(k, i) \notin {".", "[", "]", "\"", "{", "}", ":", ",", "|", "$"}

\* a quoted composite key: field names joined by dots, in quotes
compositeKey(k) ==
  /\ Len(k) >= 2 /\ charAt(k, 1) = "\"" /\ charAt(k, Len(k)) = "\""
  /\ LET inner == unquote(k)
         names == splitDots(inner, 1, "")
     IN /\ names # <<>>
        /\ inner = join(names, ".")
        /\ \A n \in 1..Len(names) : plainName(names[n])

\* C29: in every reachable state every key of an object construction of the
\* generated expression is a plain field name or a quoted composite key, and
\* none holds an array marker, also for a leaf under two nested arrays, for
\* moved nodes and for the index keys of an array of arrays.
C29_KeysWithoutMarkers ==
  LET e == buildNestedExpr(collectSelected(tree, movedNodes), compressPath)
  IN \A k \in keysOf(e) :
       /\ ~includes(k, "[]")
       /\ plainName(k) \/ compositeKey(k)

\* the expression of the selection, move records and compression setting
\* of the next state: the identity when nothing is selected
synthesized ==
  LET entries == collectSelected(tree', movedNodes')
  IN IF entries = <<>> THEN "." ELSE buildNestedExpr(entries, compressPath')

\* the step stored the synthesized expression and issued the query for it
\* and for the current document
handled ==
  /\ expression' = synthesized
  /\ queries' = Append(queries, queryRequest(rawData', expression', format'))

\* C30: every select toggle, successful Reorder, successful MoveInto,
\* compression toggle and successful file switch is handled to its end in
\* one step: the stored expression is then the synthesized one for the
\* current selection, move records and compression setting, and the step
\* issued the query with that expression and the current document.
C30_ActionsHandledToCompletion ==
  [][/\ tree' # tree => \A n \in Nodes : SelectNode(n) => handled
     /\ queries' # queries =>
          \A d \in Nodes, n \in Nodes :
            (\E insertAfter \in BOOLEAN : Reorder(d, n, insertAfter)) => handled
     /\ movedNodes' # movedNodes => \A d \in Nodes, n \in Nodes : MoveInto(d, n) => handled
     /\ (compressPath' # compressPath /\ SetCompressPath) => handled
     /\ loads' # loads => \A i \in 1..Len(loads) : LoadResponse(i, TRUE) => handled]_vars

\* C31: with two query requests in flight, each response overwrites the
\* displayed result or error when it arrives, whichever request it answers;
\* no step but the arrival of its own response takes a request out of
\* flight, and no response is dropped.  Once both have arrived the display
\* shows the one that arrived last.
C31_LastArrivalWins ==
  [][/\ \A i \in 1..Len(queries) :
          /\ (queries' # queries /\ QueryResponse(i, TRUE)) =>
               /\ result' = resultOf(queries[i]) /\ error' = ""
               /\ queries' = removeAt(queries, i)
          /\ (queries' # queries /\ QueryResponse(i, FALSE)) =>
               /\ error' = errorOf(queries[i]) /\ result' = ""
               /\ queries' = removeAt(queries, i)
     /\ \/ Len(queries') >= Len(queries) /\ SubSeq(queries', 1, Len(queries)) = queries
        \/ \E i \in 1..Len(queries), ok \in BOOLEAN : QueryResponse(i, ok)]_vars

\* two requests were in flight and the one issued first arrived last:
\* nothing is in flight, the page shows the result for the identity
\* expression, and the expression on the page is another one
C31_Witness ==
  /\ queries = <<>>
  /\ rawData = "ky.json"
  /\ expression = "{y: .y}"
  /\ result = resultOf(queryRequest("ky.json", ".", "json"))

\* C32: a file switch is all-or-nothing.  When the response to a load
\* arrives with the document, the tree is the freshly built tree of the new
\* document with no leaf selected, the move records are empty, the expression
\* is the identity and the current file is the requested one; when it arrives
\* with an error, the tree, the selection, the move records, the expression
\* and the current file are as they were.
C32_SwitchAllOrNothing ==
  [][\A i \in 1..Len(loads) :
       /\ (loads' # loads /\ LoadResponse(i, TRUE)) =>
            /\ tree' = buildRoot(loads[i])
            /\ \A n \in DOMAIN tree' : ~tree'[n].selected
            /\ movedNodes' = <<>>
            /\ expression' = "."
            /\ currentFile' = loads[i]
            /\ rawData' = loads[i]
       /\ (loads' # loads /\ LoadResponse(i, FALSE)) =>
            UNCHANGED <<tree, movedNodes, expression, currentFile, rawData>>]_vars

\* C34: every selected leaf appears exactly once as a field of the generated
\* expression: the leaf fields are as many as the selected leaves and each
\* selected leaf has exactly one field under its address, also after a leaf
\* was moved into a container that already holds a child with its key.
C34_EveryLeafOnce ==
  LET entries == collectSelected(tree, movedNodes)
      fields == leafFields(buildNestedExpr(entries, compressPath))
  IN /\ Len(fields) = Len(entries)
     /\ \A i \in 1..Len(entries) :
          Cardinality({f \in 1..Len(fields) : fields[f].chain = chainOf(entries[i].path)}) = 1

\* the nodes on the way from the root down to node n, n left out
ancestors(t, n) == {m \in DOMAIN t : m # n /\ n \in subtree(t, m)}

\* the tree but for the expanded flags
folded(t) == [n \in DOMAIN t |-> [t[n] EXCEPT !.expanded = FALSE]]

\* a fold or unfold changes nothing but expanded flags
foldingFrame ==
  (tree' # tree /\ (ExpandAll \/ CollapseAll \/ CollapseEmpty
                      \/ \E n \in Nodes : ToggleNode(n))) =>
    /\ folded(tree') = folded(tree)
    /\ UNCHANGED <<movedNodes, expression>>

\* the root is expanded after collapseAll and after collapseEmpty
rootStaysExpanded ==
  lastFold \in {"collapseAll", "collapseEmpty"} => tree[Root].expanded

\* the ancestors of the selected leaves are expanded after collapseEmpty
selectionStaysVisible ==
  lastFold = "collapseEmpty" =>
    \A n \in Nodes : (tree[n].isLeaf /\ tree[n].selected) =>
                       \A m \in ancestors(tree, n) : tree[m].expanded

\* C33: folding and unfolding, by the toggle of a row and by the three
\* buttons, changes no selected flag, no address, no key, no child order, no
\* move record and not the expression; after collapseAll and after
\* collapseEmpty the root is expanded; after collapseEmpty every ancestor of
\* a selected leaf is expanded.
C33_FoldingChangesNothingElse ==
  /\ [][foldingFrame]_vars
  /\ [](rootStaysExpanded /\ selectionStaysVisible)

\* C33 where the root has children
foldingWithChildren ==
  /\ [][foldingFrame]_vars
  /\ [](tree[Root].hasChildren => rootStaysExpanded /\ selectionStaysVisible)

\* the /api/load requests that are being handled or have just been answered
loadHandlers == {h \in DOMAIN handlers : handlers[h].kind = "load"}

\* the request of handler h got as far as its file name: it is a POST, a
\* directory is served, and the body was decoded
namedFile(h) ==
  /\ handlers[h].method = "POST"
  /\ server.dirPath # ""
  /\ handlers[h].decodes

\* a file name with ".." or "/" in it is answered with Invalid filename and
\* no file is read for it
trapsTraversal ==
  \A h \in loadHandlers :
    (includes(handlers[h].filename, "..") \/ includes(handlers[h].filename, "/")) =>
      /\ ~handlers[h].didRead
      /\ ~handlers[h].wrote
      /\ (namedFile(h) /\ handlers[h].pc = "done") => handlers[h].response = "Invalid filename"

\* a handler that wrote the name had read the file and found valid JSON in
\* it; a handler that answered with an error did not write
writesAfterParse ==
  \A h \in loadHandlers :
    /\ handlers[h].wrote =>
         /\ namedFile(h)
         /\ handlers[h].didRead
         /\ handlers[h].filename \in ValidFiles
    /\ (handlers[h].pc = "done" /\ handlers[h].response # "data") => ~handlers[h].wrote

\* the name changes in no step but the end of the write of a handler that
\* read its file and found valid JSON in it
changesAtWriteOnly ==
  server'.currentFile # server.currentFile =>
    \E h \in loadHandlers :
       /\ handlers[h].pc = "writing"
       /\ handlers'[h].wrote
       /\ handlers[h].didRead
       /\ handlers[h].filename \in ValidFiles
       /\ ~includes(handlers[h].filename, "..") /\ ~includes(handlers[h].filename, "/")

\* C35: a /api/load request whose file name contains ".." or "/" is answered
\* with Invalid filename and no file is read for it; the current-file name of
\* the server changes only after the requested file was read and parsed as
\* valid JSON; on every path that answers with an error (no directory,
\* undecodable body, invalid file name, unreadable file, invalid JSON) it is
\* unchanged.
C35_LoadValidatesBeforeWrite ==
  /\ [](trapsTraversal /\ writesAfterParse)
  /\ [][changesAtWriteOnly /\ server'.dirPath = server.dirPath]_vars

\* one request was answered with Invalid filename while another, for a file
\* with valid JSON, has changed the name
C35_Witness ==
  /\ server.currentFile = "kx.json"
  /\ \E h \in loadHandlers :
       /\ handlers[h].filename = "sub/kx.json"
       /\ handlers[h].response = "Invalid filename"
  /\ \E h \in loadHandlers : handlers[h].wrote

\* C36: the accesses to the current-file variable of the server are mutually
\* exclusive: no handler reads it while a /api/load handler writes it, and no
\* two /api/load handlers write it at the same time.
C36_AccessesExclusive ==
  \A g \in DOMAIN handlers, h \in DOMAIN handlers :
    (g # h /\ handlers[g].pc = "writing") => handlers[h].pc \notin {"reading", "writing"}

====
